---- MODULE Spec2Model ----
(***************************************************************************)
(* A model of the particle-life simulation kernel: the ParticlePool, the   *)
(* Quadtree, Particle, the PhysicsEngine frame update and the parts of     *)
(* Game that apply the engine's results and the option changes.            *)
(*                                                                         *)
(* Numbers.  The program computes in IEEE doubles; the model computes in   *)
(* fixed point: a real r is the integer r * SCALE, products and quotients  *)
(* are rescaled and truncated towards zero, and Math.sqrt is the integer   *)
(* square root.  Comparisons of a distance with a limit are made on the    *)
(* squares, which is exact.                                                *)
(***************************************************************************)
EXTENDS Integers, Sequences, FiniteSets, TLC

VARIABLES
  P,                  \* every Particle object ever constructed: id -> fields
  nextParticleId,     \* Particle.js: the global id counter
  pool,               \* ParticlePool.pool, the free list (a sequence of ids)
  poolSize,           \* ParticlePool.poolSize
  maxPoolSize,        \* ParticlePool.maxPoolSize
  initialized,        \* ParticlePool.initialized
  stats,              \* ParticlePool.stats
  ret,                \* what the last call returned to its caller
  particles,          \* Game.particles = PhysicsEngine.particles (one array)
  rules,              \* PhysicsEngine.rules
  ruleManager,        \* the RuleManager: rules, ruleHistory, currentHistoryIndex
  ruleObjects,        \* the rule tables that are shared by reference (a sequence)
  rulesPanel,         \* RulesPanel.rules: which table it refers to
  typeRegistry,       \* the ParticleTypeRegistry singleton
  debounce,           \* RulesPanel: the pending setTimeout of an input element
  optionObjects,      \* the options objects, by reference (a sequence)
  particleOptions,    \* Game.particleOptions: which object it refers to
  canvas,             \* canvas width and height handed to update
  inputEvents,        \* how many input events the Game has handled (observer)
  collisionsThisFrame,
  particlesToAdd,
  particlesToRemove,
  quadtree,           \* PhysicsEngine.quadtree
  pc,                 \* position of the frame handler
  work,               \* ordered pairs the force pass has still to visit
  frame,              \* number of updates started
  lastHit             \* id -> frame of its last processed collision (observer)

poolVars == <<pool, poolSize, maxPoolSize, initialized, stats>>
heapVars == <<P, nextParticleId>>
optVars == <<optionObjects, particleOptions>>
frameVars == <<collisionsThisFrame, particlesToAdd, particlesToRemove, pc, work,
               frame, lastHit>>
uiVars == <<ruleObjects, rulesPanel, typeRegistry, debounce>>
engineVars == <<particles, rules, ruleManager, uiVars, canvas, inputEvents, quadtree>>
vars == <<P, nextParticleId, pool, poolSize, maxPoolSize, initialized, stats,
          ret, particles, rules, ruleManager, ruleObjects, rulesPanel,
          typeRegistry, debounce, optionObjects, particleOptions, canvas, inputEvents,
          collisionsThisFrame, particlesToAdd, particlesToRemove, quadtree,
          pc, work, frame, lastHit>>

----------------------------------------------------------------------------
(* Fixed-point arithmetic *)

SCALE == 10 * 10

Abs(a) == IF a < 0 THEN -a ELSE a

\* a / b for b > 0, truncated towards zero
Div(a, b) == IF a >= 0 THEN a \div b ELSE -((-a) \div b)

\* a * b of two scaled numbers
Mul(a, b) == Div(a * b, SCALE)

\* a / b of two scaled numbers, b > 0
Quo(a, b) == Div(a * SCALE, b)

Max(a, b) == IF a >= b THEN a ELSE b

Min(a, b) == IF a <= b THEN a ELSE b

RECURSIVE SqrtSearch(_, _, _)
SqrtSearch(n, lo, hi) ==
  IF lo >= hi THEN lo
  ELSE LET mid == (lo + hi + 1) \div 2
       IN IF mid * mid <= n THEN SqrtSearch(n, mid, hi)
          ELSE SqrtSearch(n, lo, mid - 1)

\* Math.sqrt: the largest r with r * r <= n
Sqrt(n) == SqrtSearch(n, 0, 46340)

\* JavaScript's  v || d  on numbers
OrElse(v, d) == IF v = 0 THEN d ELSE v

----------------------------------------------------------------------------
(* Config.js *)

\* PARTICLE_CONFIG.types: the enabled type ids, in display order
Types == <<"A", "B", "C">>

TypeSet == {Types[i] : i \in 1..Len(Types)}

\* Scaled-down sizes; the program's values are 200, 7000, 50 and 5000
PARTICLE_COUNT_PER_TYPE == 1
MAX_TOTAL_PARTICLES == 5
MAX_COLLISIONS_PER_FRAME == 2
MIN_POOL_SIZE == 2

COLLISION_COOLDOWN_FRAMES == 60

\* PARTICLE_CONFIG.defaultOptions
defaultOptions ==
  [ size |-> 2 * SCALE,
    friction |-> 90,
    maxAcceleration |-> 50,
    maxVelocity |-> 8 * SCALE,
    maxDistance |-> 80 * SCALE,
    collisionDistanceRatio |-> 2 * SCALE,
    forceMultiplier |-> 10,
    minDistanceToEdges |-> 50 * SCALE,
    edgeRepulsionForce |-> 90,
    enableVelocityClamp |-> TRUE,
    enableAccelerationClamp |-> TRUE,
    useQuadtree |-> TRUE,
    quadtreeCapacity |-> 8 ]

\* References to the options objects: optionObjects[DefaultOptionsRef] is
\* PARTICLE_CONFIG.defaultOptions, optionObjects[EngineOptionsRef] is
\* PhysicsEngine.options, the later ones are the objects Game.particleOptions
\* has referred to
DefaultOptionsRef == 1
EngineOptionsRef == 2
FirstGameOptionsRef == 3

----------------------------------------------------------------------------
(* Particle.js *)

\* new Particle(x, y, type, colors, types, options), the fields but the id;
\* o is the options object
NewParticle(x, y, type, o) ==
  [ x |-> x, y |-> y, vx |-> 0, vy |-> 0, fx |-> 0, fy |-> 0,
    type |-> type,
    size |-> OrElse(optionObjects[o].size, 2 * SCALE),
    options |-> o,
    friction |-> OrElse(optionObjects[o].friction, 90),
    maxAcceleration |-> OrElse(optionObjects[o].maxAcceleration, 50),
    maxVelocity |-> OrElse(optionObjects[o].maxVelocity, 8 * SCALE),
    collisionCooldown |-> 0 ]

\* The constructor: this.id = nextParticleId++ (id is the value the counter
\* had), then the fields above
ConstructParticle(id, x, y, type, o) == ("id" :> id) @@ NewParticle(x, y, type, o)

\* reset that does not keep the id
ResetParticleLosingId(p, x, y, type, o) == ("id" :> 0) @@ NewParticle(x, y, type, o)

\* Particle.reset on the object p: every field but the id is overwritten
ResetParticle(p, x, y, type, o) == ("id" :> p.id) @@ NewParticle(x, y, type, o)

\* d > m for a distance d >= 0 with square d2
DistGT(d2, m) == m < 0 \/ d2 > m * m

\* d < m for a distance d >= 0 with square d2
DistLT(d2, m) == m > 0 /\ d2 < m * m

DistSq(self, other) ==
  (other.x - self.x) * (other.x - self.x) + (other.y - self.y) * (other.y - self.y)

\* The rule calculateForce uses when the row has no entry for the pair
NeutralForceRule == [closeForce |-> 0, farForce |-> 0, threshold |-> 30 * SCALE]

HasRow(rls, t) == t \in DOMAIN rls

HasRule(rls, t1, t2) == t1 \in DOMAIN rls /\ t2 \in DOMAIN rls[t1]

\* (this.size + otherParticle.size) * collisionDistanceRatio in calculateForce
ForceCollisionDistance(self, other, o) ==
  Mul(self.size + other.size, OrElse(o.collisionDistanceRatio, SCALE))

\* Particle.calculateForce(otherParticle, rules, options): the force, or
\* error = TRUE when the evaluation throws (rules[this.type] is undefined).
\* The call of onCollision changes nothing: the names it tests with typeof
\* (collisionsThisFrame, particles, rules) are not defined in its scope.
calculateForce(self, other, rls, o) ==
  LET dx == other.x - self.x
      dy == other.y - self.y
      d2 == dx * dx + dy * dy
      distance == Sqrt(d2)
      maxDistance == OrElse(o.maxDistance, 80 * SCALE)
      forceMultiplier == OrElse(o.forceMultiplier, 10)
      zero == [error |-> FALSE, fx |-> 0, fy |-> 0, magnitude |-> 0]
  IN IF d2 = 0 \/ DistGT(d2, maxDistance) THEN zero
     ELSE IF ~HasRow(rls, self.type) THEN [zero EXCEPT !.error = TRUE]
     ELSE
       LET rule == IF other.type \in DOMAIN rls[self.type]
                   THEN rls[self.type][other.type] ELSE NeutralForceRule
           nx == Quo(dx, distance)
           ny == Quo(dy, distance)
           falloff == SCALE - Quo(distance, maxDistance)
           force == IF DistLT(d2, rule.threshold) THEN rule.closeForce
                    ELSE rule.farForce
           collisionDistance == ForceCollisionDistance(self, other, o)
           collisionForce ==
             IF DistLT(d2, collisionDistance)
             THEN -Mul(3 * SCALE, SCALE - Quo(distance, collisionDistance))
             ELSE 0
           finalForce == Mul(Mul(force, falloff) + collisionForce, forceMultiplier)
       IN [error |-> FALSE, fx |-> Mul(finalForce, nx), fy |-> Mul(finalForce, ny),
           magnitude |-> Abs(finalForce)]

\* Particle.applyForce
applyForce(self, force) ==
  [self EXCEPT !.fx = @ + force.fx, !.fy = @ + force.fy]

\* Particle.resetForces
resetForces(self) == [self EXCEPT !.fx = 0, !.fy = 0]

\* Particle.calculateEdgeRepulsion(canvasWidth, canvasHeight, options)
calculateEdgeRepulsion(self, canvasWidth, canvasHeight, o) ==
  LET minDistance == OrElse(o.minDistanceToEdges, 50 * SCALE)
      repulsionForce == OrElse(o.edgeRepulsionForce, 30)
      Push(dist) == IF dist < minDistance
                    THEN Mul(repulsionForce, SCALE - Quo(dist, minDistance))
                    ELSE 0
  IN [fx |-> Push(self.x) - Push(canvasWidth - self.x),
      fy |-> Push(self.y) - Push(canvasHeight - self.y)]

\* Particle.clampAcceleration
clampAcceleration(self) ==
  LET accelerationMagnitude == Sqrt(self.fx * self.fx + self.fy * self.fy)
  IN IF accelerationMagnitude > self.maxAcceleration
     THEN LET scale == Quo(self.maxAcceleration, accelerationMagnitude)
          IN [self EXCEPT !.fx = Mul(@, scale), !.fy = Mul(@, scale)]
     ELSE self

\* Particle.getSpeed
getSpeed(self) == Sqrt(self.vx * self.vx + self.vy * self.vy)

\* clampVelocity with the test turned round
clampVelocityWhenSlow(self) ==
  IF getSpeed(self) > self.maxVelocity THEN self
  ELSE [self EXCEPT !.vx = @ * 2, !.vy = @ * 2]

\* Particle.clampVelocity
clampVelocity(self) ==
  LET velocityMagnitude == Sqrt(self.vx * self.vx + self.vy * self.vy)
  IN IF velocityMagnitude > self.maxVelocity
     THEN LET scale == Quo(self.maxVelocity, velocityMagnitude)
          IN [self EXCEPT !.vx = Mul(@, scale), !.vy = Mul(@, scale)]
     ELSE self

\* Particle.update(canvasWidth, canvasHeight); objs are the options objects
update(self, objs) ==
  LET c == IF self.collisionCooldown > 0
           THEN [self EXCEPT !.collisionCooldown = @ - 1] ELSE self
      a == IF objs[self.options].enableAccelerationClamp
           THEN clampAcceleration(c) ELSE c
      v == [a EXCEPT !.vx = @ + a.fx, !.vy = @ + a.fy]
      w == IF objs[self.options].enableVelocityClamp
           THEN clampVelocity(v) ELSE v
      f == [w EXCEPT !.vx = Mul(@, w.friction), !.vy = Mul(@, w.friction)]
  IN [f EXCEPT !.x = @ + f.vx, !.y = @ + f.vy]

\* Particle.setMaxVelocity / setMaxAcceleration
setMaxVelocity(self, v) == [self EXCEPT !.maxVelocity = Max(10, v)]

setMaxAcceleration(self, a) == [self EXCEPT !.maxAcceleration = Max(1, a)]

----------------------------------------------------------------------------
(* Quadtree.js: a node is a record; subdivisions is the empty sequence or  *)
(* <<northeast, northwest, southeast, southwest>>.  An entity is stored in *)
(* a node as its id with the position it had when it was inserted.         *)

Rectangle(x, y, width, height) ==
  [x |-> x, y |-> y, width |-> width, height |-> height]

\* Rectangle.contains with the upper edges included
ContainsClosed(r, px, py) ==
  /\ px >= r.x /\ px <= r.x + r.width
  /\ py >= r.y /\ py <= r.y + r.height

\* Rectangle.contains(particle)
Contains(r, px, py) ==
  /\ px >= r.x /\ px < r.x + r.width
  /\ py >= r.y /\ py < r.y + r.height

\* new Quadtree(boundary, capacity)
NewQuadtree(boundary, capacity) ==
  [boundary |-> boundary, capacity |-> capacity, particles |-> <<>>,
   divided |-> FALSE, subdivisions |-> <<>>]

\* Quadtree.subdivide: the four children, in the order insert tries them
Subdivide(node) ==
  LET x == node.boundary.x
      y == node.boundary.y
      w == Div(node.boundary.width, 2)
      h == Div(node.boundary.height, 2)
  IN << NewQuadtree(Rectangle(x + w, y, w, h), node.capacity),
        NewQuadtree(Rectangle(x, y, w, h), node.capacity),
        NewQuadtree(Rectangle(x + w, y + h, w, h), node.capacity),
        NewQuadtree(Rectangle(x, y + h, w, h), node.capacity) >>

\* Quadtree.insert(particle): [ok, node], the answer and the node afterwards
RECURSIVE Insert(_, _)
RECURSIVE InsertInto(_, _, _)

\* an insert chain that tries the north-east child only
InsertIntoNorthEastOnly(children, k, e) ==
  LET r == Insert(children[1], e)
  IN [ok |-> r.ok, children |-> [children EXCEPT ![1] = r.node]]

\* the  a.insert(p) || b.insert(p) || ...  chain over the children from k on
InsertInto(children, k, e) ==
  IF k > Len(children) THEN [ok |-> FALSE, children |-> children]
  ELSE LET r == Insert(children[k], e)
       IN IF r.ok THEN [ok |-> TRUE, children |-> [children EXCEPT ![k] = r.node]]
          ELSE InsertInto([children EXCEPT ![k] = r.node], k + 1, e)

\* an insert that subdivides as soon as the node is full
InsertSubdividingWhenFull(node, e) ==
  IF ~Contains(node.boundary, e.x, e.y) THEN [ok |-> FALSE, node |-> node]
  ELSE IF Len(node.particles) < node.capacity
  THEN [ok |-> TRUE,
        node |-> IF Len(node.particles) + 1 = node.capacity /\ ~node.divided
                 THEN [node EXCEPT !.particles = Append(@, e), !.divided = TRUE,
                                   !.subdivisions = Subdivide(node)]
                 ELSE [node EXCEPT !.particles = Append(@, e)]]
  ELSE LET children == IF node.divided THEN node.subdivisions ELSE Subdivide(node)
           r == InsertInto(children, 1, e)
       IN [ok |-> r.ok,
           node |-> [node EXCEPT !.divided = TRUE, !.subdivisions = r.children]]

Insert(node, e) ==
  IF ~Contains(node.boundary, e.x, e.y) THEN [ok |-> FALSE, node |-> node]
  ELSE IF Len(node.particles) < node.capacity
  THEN [ok |-> TRUE, node |-> [node EXCEPT !.particles = Append(@, e)]]
  ELSE LET children == IF node.divided THEN node.subdivisions ELSE Subdivide(node)
           r == InsertInto(children, 1, e)
       IN [ok |-> r.ok,
           node |-> [node EXCEPT !.divided = TRUE, !.subdivisions = r.children]]

\* the entities of a node that lie in the circle, in stored order
InCircle(es, x, y, radius) ==
  SelectSeq(es, LAMBDA e :
    (e.x - x) * (e.x - x) + (e.y - y) * (e.y - y) <= radius * radius)

RECURSIVE QueryCircle(_, _, _, _)
RECURSIVE QueryChildren(_, _, _, _, _)

QueryChildren(children, k, x, y, radius) ==
  IF k > Len(children) THEN <<>>
  ELSE QueryCircle(children[k], x, y, radius)
         \o QueryChildren(children, k + 1, x, y, radius)

\* queryCircle that prunes a node by its centre instead of its closest point
QueryCirclePruneByCentre(node, x, y, radius) ==
  LET cx == node.boundary.x + Div(node.boundary.width, 2)
      cy == node.boundary.y + Div(node.boundary.height, 2)
  IN IF (x - cx) * (x - cx) + (y - cy) * (y - cy) > radius * radius THEN <<>>
     ELSE InCircle(node.particles, x, y, radius)
            \o (IF node.divided
                THEN QueryChildren(node.subdivisions, 1, x, y, radius) ELSE <<>>)

\* Quadtree.queryCircle(x, y, radius): the entities found, in order
QueryCircle(node, x, y, radius) ==
  LET closestX == Max(node.boundary.x, Min(x, node.boundary.x + node.boundary.width))
      closestY == Max(node.boundary.y, Min(y, node.boundary.y + node.boundary.height))
      dx == x - closestX
      dy == y - closestY
  IN IF dx * dx + dy * dy > radius * radius THEN <<>>
     ELSE InCircle(node.particles, x, y, radius)
            \o (IF node.divided
                THEN QueryChildren(node.subdivisions, 1, x, y, radius) ELSE <<>>)

\* Quadtree.size
RECURSIVE Size(_)
Size(node) ==
  Len(node.particles)
    + (IF node.divided
       THEN Size(node.subdivisions[1]) + Size(node.subdivisions[2])
              + Size(node.subdivisions[3]) + Size(node.subdivisions[4])
       ELSE 0)

\* Quadtree.depth
RECURSIVE Depth(_)
Depth(node) ==
  IF ~node.divided THEN 1
  ELSE 1 + Max(Max(Depth(node.subdivisions[1]), Depth(node.subdivisions[2])),
               Max(Depth(node.subdivisions[3]), Depth(node.subdivisions[4])))

\* the entities stored in the nodes of a tree, node by node
RECURSIVE Stored(_)
Stored(node) ==
  node.particles
    \o (IF node.divided
        THEN Stored(node.subdivisions[1]) \o Stored(node.subdivisions[2])
               \o Stored(node.subdivisions[3]) \o Stored(node.subdivisions[4])
        ELSE <<>>)

----------------------------------------------------------------------------
(* ParticlePool.js *)

\* How many getParticle calls SpecPool makes
MaxGets == 3

\* How many Particle objects the program constructs at most: the pool of
\* initialize() and one object for every getParticle call on an empty pool
MaxId ==
  LET totalParticles == Len(Types) * PARTICLE_COUNT_PER_TYPE
  IN totalParticles + Max(MIN_POOL_SIZE, totalParticles) + MaxGets

Range(s) == {s[i] : i \in 1..Len(s)}

\* The part of the state the pool's methods work on, and ret, what the call
\* returns
Here == [P |-> P, nextParticleId |-> nextParticleId, pool |-> pool,
         poolSize |-> poolSize, maxPoolSize |-> maxPoolSize,
         initialized |-> initialized, stats |-> stats, ret |-> 0]

Commit(st) ==
  /\ P' = st.P
  /\ nextParticleId' = st.nextParticleId
  /\ pool' = st.pool
  /\ poolSize' = st.poolSize
  /\ maxPoolSize' = st.maxPoolSize
  /\ initialized' = st.initialized
  /\ stats' = st.stats

\* ParticlePool.initialize(initialSize); initialSize = 0 stands for null
initialize(st, initialSize) ==
  IF st.initialized THEN st
  ELSE
    LET totalParticles == Len(Types) * PARTICLE_COUNT_PER_TYPE
        poolBuffer == Max(MIN_POOL_SIZE, totalParticles)
        size == OrElse(initialSize, totalParticles + poolBuffer)
        fresh == st.nextParticleId..(st.nextParticleId + size - 1)
    IN [st EXCEPT
          !.poolSize = size,
          !.pool = [i \in 1..size |-> st.nextParticleId + i - 1],
          !.P = [i \in DOMAIN st.P \cup fresh |->
                   IF i \in DOMAIN st.P THEN st.P[i]
                   ELSE ConstructParticle(i, 0, 0, Types[1], DefaultOptionsRef)],
          !.nextParticleId = @ + size,
          !.initialized = TRUE]

\* new this.Particle(...): the constructor takes the next id
Construct(st, x, y, type, o) ==
  [st EXCEPT !.P = (st.nextParticleId :>
                      ConstructParticle(st.nextParticleId, x, y, type, o)) @@ st.P,
             !.nextParticleId = @ + 1,
             !.ret = st.nextParticleId]

CountActive(stt) ==
  [stt EXCEPT !.currentActive = @ + 1,
              !.peakUsage = Max(@, stt.currentActive + 1)]

\* ParticlePool.getParticle(x, y, type, colors, types, options): the state
\* after the call, with the particle it returns in ret
getParticle(st, x, y, type, o) ==
  IF ~st.initialized THEN Construct(st, x, y, type, o)
  ELSE IF Len(st.pool) = 0
  THEN [Construct(st, x, y, type, o) EXCEPT
          !.stats = CountActive([st.stats EXCEPT !.totalCreated = @ + 1])]
  ELSE LET particle == st.pool[Len(st.pool)]
       IN [st EXCEPT
             !.pool = SubSeq(st.pool, 1, Len(st.pool) - 1),
             !.P = [st.P EXCEPT ![particle] =
                      ResetParticle(st.P[particle], x, y, type, o)],
             !.stats = CountActive([st.stats EXCEPT !.totalRecycled = @ + 1]),
             !.ret = particle]

\* returnParticle without the decrement of the active count
returnParticleNoDecrement(st, particle) ==
  IF ~st.initialized \/ Len(st.pool) >= st.maxPoolSize THEN st
  ELSE [st EXCEPT
          !.P = [st.P EXCEPT ![particle] =
                   ResetParticle(st.P[particle], 0, 0, Types[1],
                                 DefaultOptionsRef)],
          !.pool = Append(st.pool, particle)]

\* ParticlePool.returnParticle(particle)
returnParticle(st, particle) ==
  IF ~st.initialized THEN st
  ELSE IF Len(st.pool) >= st.maxPoolSize THEN st
  ELSE [st EXCEPT
          !.P = [st.P EXCEPT ![particle] =
                   ResetParticle(st.P[particle], 0, 0, Types[1],
                                 DefaultOptionsRef)],
          !.pool = Append(st.pool, particle),
          !.stats = [st.stats EXCEPT !.currentActive = @ - 1]]

\* ParticlePool.returnParticles(particles)
RECURSIVE returnParticlesFrom(_, _, _)
returnParticlesFrom(st, ps, k) ==
  IF k > Len(ps) THEN st
  ELSE returnParticlesFrom(returnParticle(st, ps[k]), ps, k + 1)

returnParticles(st, ps) == returnParticlesFrom(st, ps, 1)

\* ParticlePool.clear()
clear(st) ==
  [st EXCEPT !.pool = <<>>, !.stats = [st.stats EXCEPT !.currentActive = 0]]

\* resize: the loop that constructs the additional particles
RECURSIVE Expand(_, _)
Expand(st, additionalParticles) ==
  IF additionalParticles <= 0 THEN st
  ELSE LET made == Construct(st, 0, 0, Types[1], DefaultOptionsRef)
       IN Expand([made EXCEPT !.pool = Append(st.pool, made.ret), !.ret = st.ret],
                 additionalParticles - 1)

\* ParticlePool.resize(newSize)
resize(st, newSize) ==
  IF newSize < st.stats.currentActive THEN st
  ELSE LET sized ==
             IF newSize > st.poolSize THEN Expand(st, newSize - st.poolSize)
             ELSE IF newSize < st.poolSize
             THEN LET toRemove == st.poolSize - newSize
                      removedCount == Min(toRemove, Len(st.pool))
                  IN [st EXCEPT !.pool = SubSeq(st.pool, removedCount + 1,
                                                Len(st.pool))]
             ELSE st
       IN [sized EXCEPT !.poolSize = newSize,
                        !.maxPoolSize = Max(newSize, MAX_TOTAL_PARTICLES)]

\* ParticlePool.resetStats()
resetStats(st) ==
  [st EXCEPT !.stats = [totalCreated |-> 0, totalRecycled |-> 0,
                        peakUsage |-> st.stats.currentActive,
                        currentActive |-> st.stats.currentActive]]

----------------------------------------------------------------------------
(* PhysicsEngine.js *)

\* PhysicsEngine.options
options == optionObjects[EngineOptionsRef]

\* An entity as the quadtree holds it
Entity(PP, p) == [id |-> p, x |-> PP[p].x, y |-> PP[p].y]

RECURSIVE InsertAll(_, _, _, _)
InsertAll(tree, PP, ps, k) ==
  IF k > Len(ps) THEN tree
  ELSE InsertAll(Insert(tree, Entity(PP, ps[k])).node, PP, ps, k + 1)

\* calculateForcesWithQuadtree, first half: the tree over the canvas with
\* every particle inserted (the answer of insert is not looked at)
BuildQuadtree(PP, ps, cv, o) ==
  InsertAll(NewQuadtree(Rectangle(0, 0, cv.width, cv.height), o.quadtreeCapacity),
            PP, ps, 1)

\* the pairs (particle, other) of one neighbour query, the particle left out
NeighbourPairs(p, found) ==
  LET others == SelectSeq(found, LAMBDA e : e.id # p)
  IN [i \in 1..Len(others) |-> <<p, others[i].id>>]

RECURSIVE QuadtreePairsFrom(_, _, _, _, _)
QuadtreePairsFrom(tree, PP, ps, k, o) ==
  IF k > Len(ps) THEN <<>>
  ELSE NeighbourPairs(ps[k], QueryCircle(tree, PP[ps[k]].x, PP[ps[k]].y, o.maxDistance))
         \o QuadtreePairsFrom(tree, PP, ps, k + 1, o)

\* calculateForcesWithQuadtree, second half: the ordered pairs handed to
\* calculateParticleInteraction, in order
QuadtreePairs(tree, PP, ps, o) == QuadtreePairsFrom(tree, PP, ps, 1, o)

RECURSIVE BruteForcePairsFrom(_, _, _)
BruteForcePairsFrom(ps, i, j) ==
  IF i > Len(ps) THEN <<>>
  ELSE IF j > Len(ps) THEN BruteForcePairsFrom(ps, i + 1, i + 2)
  ELSE << <<ps[i], ps[j]>>, <<ps[j], ps[i]>> >> \o BruteForcePairsFrom(ps, i, j + 1)

\* calculateForcesBruteForce: the ordered pairs handed to
\* calculateParticleInteraction, in order
BruteForcePairs(ps) == BruteForcePairsFrom(ps, 1, 2)

\* update: which force pass runs
UsesQuadtree(ps, o) == o.useQuadtree /\ Len(ps) > 0

\* the budget test that lets every pair through
BudgetIgnored(n) == TRUE

\* calculateParticleInteraction: the test before checkCollision
BudgetLeft(n) == n < MAX_COLLISIONS_PER_FRAME

\* the cooldown test that looks at the first particle only
\* a collision that leaves the cooldown of the particle as it was
startCooldownNever(p) == p

\* processCollision: particle.collisionCooldown = COLLISION_COOLDOWN_FRAMES
startCooldown(p) == [p EXCEPT !.collisionCooldown = COLLISION_COOLDOWN_FRAMES]

\* checkCollision without the test of the cooldowns
CooldownNotChecked(p1, p2) == TRUE

\* checkCollision: neither particle is in collision cooldown
CooldownClear(p1, p2) == ~(p1.collisionCooldown > 0 \/ p2.collisionCooldown > 0)

\* checkCollision: distance < (p1.size + p2.size) * collisionDistanceRatio
WithinCollisionDistance(p1, p2, o) ==
  DistLT(DistSq(p1, p2), Mul(p1.size + p2.size, o.collisionDistanceRatio))

\* createParticles as the list of the types to create, one per request
RECURSIVE SpawnTypes(_)
SpawnTypes(createParticles) ==
  IF createParticles = <<>> THEN <<>>
  ELSE [i \in 1..Max(0, Head(createParticles).count) |-> Head(createParticles).type]
         \o SpawnTypes(Tail(createParticles))

\* the requests with one request too many for every listed type
SpawnRequestsOneMore(rule, p1, p2, draws) ==
  LET types == SpawnTypes([i \in 1..Len(rule.createParticles) |->
                 [rule.createParticles[i] EXCEPT !.count = @ + 1]])
  IN [i \in 1..Len(types) |->
       [x |-> Div(p1.x + p2.x, 2), y |-> Div(p1.y + p2.y, 2), type |-> types[i],
        options |-> EngineOptionsRef, initialVx |-> 0, initialVy |-> 0]]

\* processCollision: the spawn requests of one collision; draws[i] holds the
\* four Math.random() results of request i, already shifted and scaled
SpawnRequests(rule, p1, p2, draws) ==
  LET types == SpawnTypes(rule.createParticles)
      centerX == Div(p1.x + p2.x, 2)
      centerY == Div(p1.y + p2.y, 2)
      avgVx == Div(p1.vx + p2.vx, 2)
      avgVy == Div(p1.vy + p2.vy, 2)
  IN [i \in 1..Len(types) |->
       [x |-> centerX + draws[i].offsetX,
        y |-> centerY + draws[i].offsetY,
        type |-> types[i],
        options |-> EngineOptionsRef,
        initialVx |-> avgVx + draws[i].randomVx,
        initialVy |-> avgVy + draws[i].randomVy]]

\* (Math.random() - 0.5) * 10 lies in [-5, 5): its extreme values
Offsets == {-5 * SCALE, 5 * SCALE - 1}

\* (Math.random() - 0.5) * 2 lies in [-1, 1): its extreme values
RandomVelocities == {-SCALE, SCALE - 1}

\* the four Math.random() results of one request: all lowest, all highest,
\* and one mixed draw
RandomDraws ==
  {d \in [offsetX : Offsets, offsetY : Offsets,
          randomVx : RandomVelocities, randomVy : RandomVelocities] :
     \/ d.offsetX = d.offsetY /\ d.randomVx = d.randomVy
          /\ (d.offsetX < 0 <=> d.randomVx < 0)
     \/ d.offsetX < 0 /\ d.offsetY > 0 /\ d.randomVx > 0 /\ d.randomVy < 0}

Draws(n) == [1..n -> RandomDraws]

\* processCollision that never marks the originals
DestroysNever(rule) == FALSE

\* processCollision: rule.destroyOriginals
Destroys(rule) == rule.destroyOriginals

\* update that keeps the lists and the counter of the update before
UpdateBeginKeepingResults(limit) ==
  /\ pc = "idle"
  /\ Len(particles) > 0
  /\ canvas.width > 0
  /\ frame < limit
  /\ P' = [p \in DOMAIN P |->
             IF p \in Range(particles) THEN resetForces(P[p]) ELSE P[p]]
  /\ IF UsesQuadtree(particles, options)
     THEN LET tree == BuildQuadtree(P, particles, canvas, options)
          IN /\ quadtree' = <<tree>>
             /\ work' = QuadtreePairs(tree, P, particles, options)
     ELSE /\ quadtree' = quadtree
          /\ work' = BruteForcePairs(particles)
  /\ pc' = "forces"
  /\ frame' = frame + 1
  /\ ret' = 0
  /\ UNCHANGED <<nextParticleId, poolVars, particles, rules, ruleManager, uiVars, canvas, inputEvents, optVars, lastHit,
                 particlesToAdd, particlesToRemove, collisionsThisFrame>>

\* update, its first statements
UpdateBegin(limit) ==
  /\ pc = "idle"
  /\ Len(particles) > 0
  /\ canvas.width > 0
  /\ frame < limit
  /\ particlesToAdd' = <<>>
  /\ particlesToRemove' = <<>>
  /\ collisionsThisFrame' = 0
  /\ P' = [p \in DOMAIN P |->
             IF p \in Range(particles) THEN resetForces(P[p]) ELSE P[p]]
  /\ IF UsesQuadtree(particles, options)
     THEN LET tree == BuildQuadtree(P, particles, canvas, options)
          IN /\ quadtree' = <<tree>>
             /\ work' = QuadtreePairs(tree, P, particles, options)
     ELSE /\ quadtree' = quadtree
          /\ work' = BruteForcePairs(particles)
  /\ pc' = "forces"
  /\ frame' = frame + 1
  /\ ret' = 0
  /\ UNCHANGED <<nextParticleId, poolVars, particles, rules, ruleManager, uiVars, canvas, inputEvents, optVars, lastHit>>

\* processCollision that takes the destroyed pair out of the collection
CollectionWithoutDestroyed(ps, rule, p1, p2) ==
  IF rule.destroyOriginals
  THEN SelectSeq(ps, LAMBDA p : p # p1 /\ p # p2)
  ELSE ps

\* this.particles after processCollision(p1, p2): the method pushes onto
\* particlesToRemove and particlesToAdd and does not touch the collection
CollectionAfterCollision(ps, rule, p1, p2) == ps

\* calculateParticleInteraction(particle1, particle2) for the next pair,
\* with checkCollision and processCollision
Interact ==
  /\ pc = "forces"
  /\ work # <<>>
  /\ LET p1 == Head(work)[1]
         p2 == Head(work)[2]
         force == calculateForce(P[p1], P[p2], rules, options)
         P1 == [P EXCEPT ![p1] = applyForce(@, force)]
     IN IF force.error
        THEN /\ pc' = "threw"
             /\ UNCHANGED <<P, work, collisionsThisFrame, particlesToAdd,
                            particlesToRemove, lastHit, particles>>
        ELSE /\ pc' = "forces"
             /\ work' = Tail(work)
             /\ IF /\ BudgetLeft(collisionsThisFrame)
                   /\ CooldownClear(P[p1], P[p2])
                   /\ WithinCollisionDistance(P[p1], P[p2], options)
                   /\ HasRule(rules, P[p1].type, P[p2].type)
                THEN LET rule == rules[P[p1].type][P[p2].type]
                     IN /\ P' = [P1 EXCEPT ![p1] = startCooldown(@),
                                            ![p2] = startCooldown(@)]
                        /\ particlesToRemove' =
                             IF Destroys(rule) THEN particlesToRemove \o <<p1, p2>>
                             ELSE particlesToRemove
                        /\ \E draws \in Draws(Len(SpawnTypes(rule.createParticles))) :
                             particlesToAdd' =
                               particlesToAdd \o SpawnRequests(rule, P[p1], P[p2], draws)
                        /\ collisionsThisFrame' = collisionsThisFrame + 1
                        /\ lastHit' = [lastHit EXCEPT ![p1] = frame, ![p2] = frame]
                        /\ particles' =
                             CollectionAfterCollision(particles, rule, p1, p2)
                ELSE /\ P' = P1
                     /\ UNCHANGED <<collisionsThisFrame, particlesToAdd,
                                    particlesToRemove, lastHit, particles>>
  /\ ret' = 0
  /\ UNCHANGED <<nextParticleId, poolVars, rules, ruleManager, uiVars, canvas, inputEvents, quadtree,
                 optVars, frame>>

RECURSIVE applyEdgeRepulsionFrom(_, _, _, _, _)
applyEdgeRepulsionFrom(PP, ps, k, cv, o) ==
  IF k > Len(ps) THEN PP
  ELSE applyEdgeRepulsionFrom(
         [PP EXCEPT ![ps[k]] =
            applyForce(@, calculateEdgeRepulsion(@, cv.width, cv.height, o))],
         ps, k + 1, cv, o)

\* applyEdgeRepulsion: particles.forEach over the particle objects
applyEdgeRepulsion(PP, ps, cv, o) == applyEdgeRepulsionFrom(PP, ps, 1, cv, o)

RECURSIVE UpdateAllFrom(_, _, _, _)
UpdateAllFrom(PP, ps, k, objs) ==
  IF k > Len(ps) THEN PP
  ELSE UpdateAllFrom([PP EXCEPT ![ps[k]] = update(@, objs)], ps, k + 1, objs)

\* update: particles.forEach(particle => particle.update(...))
UpdateAll(PP, ps, objs) == UpdateAllFrom(PP, ps, 1, objs)

\* update, from the edge repulsion to the return of the results
UpdateEnd ==
  /\ pc = "forces"
  /\ work = <<>>
  /\ P' = UpdateAll(applyEdgeRepulsion(P, particles, canvas, options),
                    particles, optionObjects)
  /\ pc' = "results"
  /\ ret' = 0
  /\ UNCHANGED <<nextParticleId, poolVars, particles, rules, ruleManager, uiVars, canvas, inputEvents, quadtree,
                 optVars, collisionsThisFrame, particlesToAdd, particlesToRemove,
                 work, frame, lastHit>>

----------------------------------------------------------------------------
(* RuleManager.js *)

\* RuleManager.maxHistorySize (50 in the program)
maxHistorySize == 3

\* RuleManager.initialize: the rule of every ordered pair
NeutralRule == [closeForce |-> 0, farForce |-> 0, threshold |-> 30 * SCALE,
                destroyOriginals |-> FALSE, createParticles |-> <<>>]

RulesNeutral == [t1 \in TypeSet |-> [t2 \in TypeSet |-> NeutralRule]]

\* new RuleManager().  currentHistoryIndex is the JavaScript index (the
\* snapshot at the cursor is ruleHistory[currentHistoryIndex + 1] here); a
\* history entry keeps its rules (label and timestamp are never read back).
\* JSON.parse(JSON.stringify(rules)) gives an equal table that shares nothing
\* with the original, which is what a value is here.
NewRuleManager ==
  [rules |-> <<>>, initialized |-> FALSE, ruleHistory |-> <<>>,
   currentHistoryIndex |-> -1, maxHistorySize |-> maxHistorySize]

\* saveToHistory that keeps the snapshots after the cursor
saveToHistoryKeepingFuture(rm) ==
  LET pushed == Append(rm.ruleHistory, [rules |-> rm.rules])
  IN IF Len(pushed) > rm.maxHistorySize
     THEN [rm EXCEPT !.ruleHistory = Tail(pushed)]
     ELSE [rm EXCEPT !.ruleHistory = pushed, !.currentHistoryIndex = @ + 1]

\* saveToHistory that never drops the oldest snapshot
saveToHistoryUnlimited(rm) ==
  LET kept == IF rm.currentHistoryIndex < Len(rm.ruleHistory) - 1
              THEN SubSeq(rm.ruleHistory, 1, rm.currentHistoryIndex + 1)
              ELSE rm.ruleHistory
  IN [rm EXCEPT !.ruleHistory = Append(kept, [rules |-> rm.rules]),
                !.currentHistoryIndex = @ + 1]

\* RuleManager.saveToHistory(label)
saveToHistory(rm) ==
  LET kept == IF rm.currentHistoryIndex < Len(rm.ruleHistory) - 1
              THEN SubSeq(rm.ruleHistory, 1, rm.currentHistoryIndex + 1)
              ELSE rm.ruleHistory
      pushed == Append(kept, [rules |-> rm.rules])
  IN IF Len(pushed) > rm.maxHistorySize
     THEN [rm EXCEPT !.ruleHistory = Tail(pushed)]
     ELSE [rm EXCEPT !.ruleHistory = pushed, !.currentHistoryIndex = @ + 1]

\* RuleManager.initialize()
initializeRules(rm) ==
  saveToHistory([rm EXCEPT !.rules = RulesNeutral, !.initialized = TRUE])

\* RuleManager.setRules(newRules, historyLabel)
setRules(rm, newRules) == saveToHistory([rm EXCEPT !.rules = newRules])

\* this.rules[type1] && this.rules[type1][type2]
RuleFound(rm, type1, type2) ==
  type1 \in DOMAIN rm.rules /\ type2 \in DOMAIN rm.rules[type1]

\* RuleManager.setForceRule(type1, type2, closeForce, farForce, threshold)
setForceRule(rm, type1, type2, closeForce, farForce, threshold) ==
  IF ~RuleFound(rm, type1, type2) THEN rm
  ELSE [rm EXCEPT !.rules[type1][type2].closeForce = closeForce,
                  !.rules[type1][type2].farForce = farForce,
                  !.rules[type1][type2].threshold = threshold]

\* RuleManager.setCollisionRule(type1, type2, destroyOriginals, createParticles)
setCollisionRule(rm, type1, type2, destroyOriginals, createParticles) ==
  IF ~RuleFound(rm, type1, type2) THEN rm
  ELSE [rm EXCEPT !.rules[type1][type2].destroyOriginals = destroyOriginals,
                  !.rules[type1][type2].createParticles = createParticles]

\* RuleManager.randomizeForceRules(historyLabel); random[type1][type2] holds
\* the three values of Math.random() drawn for the pair, scaled
randomizeForceRules(rm, random) ==
  saveToHistory(
    [rm EXCEPT !.rules =
       [type1 \in TypeSet |-> [type2 \in TypeSet |->
          [rm.rules[type1][type2] EXCEPT
             !.closeForce = (random[type1][type2].closeForce - SCALE \div 2) * 2,
             !.farForce = (random[type1][type2].farForce - SCALE \div 2) * 2,
             !.threshold =
               20 * SCALE + Mul(random[type1][type2].threshold, 40 * SCALE)]]]])

\* RuleManager.clearCollisionRules()
clearCollisionRules(rm) ==
  [rm EXCEPT !.rules =
     [type1 \in TypeSet |-> [type2 \in TypeSet |->
        [rm.rules[type1][type2] EXCEPT !.destroyOriginals = FALSE,
                                       !.createParticles = <<>>]]]]

\* RuleManager.clearForceRules()
clearForceRules(rm) ==
  [rm EXCEPT !.rules =
     [type1 \in TypeSet |-> [type2 \in TypeSet |->
        [rm.rules[type1][type2] EXCEPT !.closeForce = 0, !.farForce = 0,
                                       !.threshold = 30 * SCALE]]]]

\* RuleManager.clearAllRules()
clearAllRules(rm) == saveToHistory(clearCollisionRules(clearForceRules(rm)))

\* randomizeCollisionRules: the pairs of different types, in the order built
PossiblePairsFrom(k) ==
  LET n == Len(Types)
      RECURSIVE From(_)
      From(i) ==
        IF i > n * n THEN <<>>
        ELSE LET type1 == Types[((i - 1) \div n) + 1]
                 type2 == Types[((i - 1) % n) + 1]
             IN (IF type1 # type2 THEN <<<<type1, type2>>>> ELSE <<>>)
                  \o From(i + 1)
  IN From(k)

PossiblePairs == PossiblePairsFrom(1)

\* selectedPairs.forEach: roll[k].create is Math.random() < 0.7, and the
\* rule set for the pair is what the later draws of the branch decide
RECURSIVE ApplySelected(_, _, _, _)
ApplySelected(rm, selectedPairs, rolls, k) ==
  IF k > Len(selectedPairs) THEN rm
  ELSE ApplySelected(
         IF rolls[k].create
         THEN setCollisionRule(rm, selectedPairs[k][1], selectedPairs[k][2],
                               rolls[k].destroyOriginals,
                               rolls[k].createParticles)
         ELSE rm,
         selectedPairs, rolls, k + 1)

\* RuleManager.randomizeCollisionRules with every shuffled pair selected
randomizeCollisionRulesWithoutLimit(rm, random) ==
  saveToHistory(ApplySelected(clearCollisionRules(rm), random.shuffledPairs,
                              random.rolls, 1))

\* RuleManager.randomizeCollisionRules(historyLabel); random.shuffledPairs is
\* the order the sort with a random comparator left the pairs in
randomizeCollisionRules(rm, random) ==
  LET maxRules == (Len(Types) * Len(Types) * 3) \div 10
      selectedPairs == SubSeq(random.shuffledPairs, 1,
                              Min(maxRules, Len(random.shuffledPairs)))
  IN saveToHistory(ApplySelected(clearCollisionRules(rm), selectedPairs,
                                 random.rolls, 1))

\* undo that moves the cursor and leaves the live table alone
undoWithoutRestore(rm) ==
  IF rm.currentHistoryIndex > 0
  THEN [rm |-> [rm EXCEPT !.currentHistoryIndex = @ - 1], ret |-> TRUE]
  ELSE [rm |-> rm, ret |-> FALSE]

\* RuleManager.undo()
undo(rm) ==
  IF rm.currentHistoryIndex > 0
  THEN [rm |-> [rm EXCEPT
                  !.currentHistoryIndex = @ - 1,
                  !.rules = rm.ruleHistory[rm.currentHistoryIndex].rules],
        ret |-> TRUE]
  ELSE [rm |-> rm, ret |-> FALSE]

\* RuleManager.redo()
redo(rm) ==
  IF rm.currentHistoryIndex < Len(rm.ruleHistory) - 1
  THEN [rm |-> [rm EXCEPT
                  !.currentHistoryIndex = @ + 1,
                  !.rules = rm.ruleHistory[rm.currentHistoryIndex + 2].rules],
        ret |-> TRUE]
  ELSE [rm |-> rm, ret |-> FALSE]

\* RuleManager.exportRules(): the text, as what JSON.parse makes of it
exportRules(rm) ==
  [parses |-> TRUE,
   data |-> [rules |-> rm.rules, types |-> Types, version |-> "1.0.0"]]

\* an assignment to types that is accepted and changes nothing
AssignTypesSilently(rm, types) == [threw |-> FALSE, rm |-> rm]

\* this.types = data.types: RuleManager.types is an accessor with a getter
\* and no setter, and the body of a class is strict code, so the assignment
\* throws a TypeError
AssignTypes(rm, types) == [threw |-> TRUE, rm |-> rm]

\* RuleManager.importRules(jsonString); text.parses tells whether JSON.parse
\* accepts the text, text.data is the object it returns.  Whatever is thrown
\* inside the try block ends in the catch block, which returns false
importRules(rm, text) ==
  IF ~text.parses THEN [rm |-> rm, ret |-> FALSE]
  ELSE IF "rules" \in DOMAIN text.data /\ "types" \in DOMAIN text.data
  THEN LET assigned == AssignTypes(rm, text.data.types)
       IN IF assigned.threw THEN [rm |-> rm, ret |-> FALSE]
          ELSE [rm |-> saveToHistory([assigned.rm EXCEPT
                                        !.rules = text.data.rules]),
                ret |-> TRUE]
  ELSE [rm |-> rm, ret |-> FALSE]

----------------------------------------------------------------------------
(* Game.js *)

IndexOf(seq, e) ==
  IF e \in Range(seq) THEN CHOOSE i \in 1..Len(seq) :
                             seq[i] = e /\ \A j \in 1..(i - 1) : seq[j] # e
  ELSE 0

RemoveAt(seq, i) == SubSeq(seq, 1, i - 1) \o SubSeq(seq, i + 1, Len(seq))

\* the removal loop that leaves the particles in the collection
RemoveAllKeeping(g, toRemove, k) == g

\* the removal loop that splices and does not return to the pool
RemoveAllWithoutReturn(g, toRemove, k) ==
  [g EXCEPT !.particles = SelectSeq(g.particles, LAMBDA p : p \notin Range(toRemove))]

\* the removal loop that returns to the pool and does not splice
RemoveAllWithoutSplice(g, toRemove, k) ==
  [g EXCEPT !.st = returnParticles(g.st, toRemove)]

RECURSIVE AddAllUncapped(_, _, _)
\* the creation loop without the test of the collection's size
AddAllUncapped(g, toAdd, k) ==
  IF k > Len(toAdd) THEN g
  ELSE LET d == toAdd[k]
           st == getParticle(g.st, d.x, d.y, d.type, d.options)
       IN AddAllUncapped([st |-> st, particles |-> Append(g.particles, st.ret)],
                         toAdd, k + 1)

RECURSIVE RemoveAll(_, _, _)
\* processCollisionResults, the removal loop; g = [st, particles]
RemoveAll(g, toRemove, k) ==
  IF k > Len(toRemove) THEN g
  ELSE LET index == IndexOf(g.particles, toRemove[k])
       IN IF index > 0
          THEN RemoveAll([st |-> returnParticle(g.st, toRemove[k]),
                          particles |-> RemoveAt(g.particles, index)],
                         toRemove, k + 1)
          ELSE RemoveAll(g, toRemove, k + 1)

RECURSIVE AddAll(_, _, _)
\* processCollisionResults, the creation loop
AddAll(g, toAdd, k) ==
  IF k > Len(toAdd) THEN g
  ELSE IF Len(g.particles) < MAX_TOTAL_PARTICLES
  THEN LET d == toAdd[k]
           st == getParticle(g.st, d.x, d.y, d.type, d.options)
           withV == [st EXCEPT !.P[st.ret].vx = d.initialVx,
                               !.P[st.ret].vy = d.initialVy]
       IN AddAll([st |-> withV, particles |-> Append(g.particles, st.ret)],
                 toAdd, k + 1)
  ELSE AddAll(g, toAdd, k + 1)

\* Game.processCollisionResults(results), called by updatePhysics
ProcessCollisionResults ==
  /\ pc = "results"
  /\ LET g0 == [st |-> Here, particles |-> particles]
         g1 == RemoveAll(g0, particlesToRemove, 1)
         g2 == AddAll(g1, particlesToAdd, 1)
     IN /\ g2.st.nextParticleId <= MaxId + 1
        /\ Commit(g2.st)
        /\ particles' = g2.particles
        /\ lastHit' = [p \in DOMAIN g2.st.P |->
                         IF p \in DOMAIN lastHit /\ p \in Range(g1.particles)
                         THEN lastHit[p] ELSE 0]
  /\ pc' = "idle"
  /\ ret' = 0
  /\ UNCHANGED <<rules, ruleManager, uiVars, canvas, inputEvents, quadtree, optVars, collisionsThisFrame,
                 particlesToAdd, particlesToRemove, work, frame>>

\* Object.assign(this.options, newOptions) of PhysicsEngine.updateOptions
\* with every key given: the engine's object takes the values
updateOptions(objs, newOptions) == [objs EXCEPT ![EngineOptionsRef] = newOptions]

\* Game.applyOptionsToParticles
applyOptionsToParticles(PP, ps, o) ==
  [p \in DOMAIN PP |->
     IF p \in Range(ps)
     THEN [setMaxAcceleration(setMaxVelocity(PP[p], o.maxVelocity), o.maxAcceleration)
             EXCEPT !.friction = o.friction, !.size = o.size]
     ELSE PP[p]]

\* How many options objects Game.particleOptions gets to refer to
MaxGameOptionObjects == 2

\* Game.handleOptionChange(key, value, options): the panel hands over its
\* options, which are the Game's with the one key changed
HandleOptionChange ==
  /\ pc = "idle"
  /\ initialized
  /\ \E change \in {[key |-> "enableVelocityClamp",
                     value |-> ~optionObjects[particleOptions].enableVelocityClamp],
                    [key |-> "maxVelocity", value |-> 1 * SCALE],
                    [key |-> "maxVelocity", value |-> 8 * SCALE]} :
       LET new == [optionObjects[particleOptions] EXCEPT ![change.key] = change.value]
       IN /\ new # optionObjects[particleOptions]
          /\ optionObjects' =
               updateOptions([optionObjects EXCEPT ![particleOptions] = new], new)
          /\ P' = applyOptionsToParticles(P, particles, new)
  /\ ret' = 0
  /\ UNCHANGED <<nextParticleId, poolVars, particleOptions, engineVars, frameVars>>

\* Game.resetOptions: particleOptions becomes a new object
ResetOptions ==
  /\ pc = "idle"
  /\ initialized
  /\ Len(optionObjects) < FirstGameOptionsRef - 1 + MaxGameOptionObjects
  /\ particleOptions' = Len(optionObjects) + 1
  /\ optionObjects' = updateOptions(Append(optionObjects, defaultOptions), defaultOptions)
  /\ P' = applyOptionsToParticles(P, particles, defaultOptions)
  /\ ret' = 0
  /\ UNCHANGED <<nextParticleId, poolVars, engineVars, frameVars>>

RECURSIVE Seed(_, _, _, _)
\* createParticles / addParticles: one getParticle per placed particle, with
\* the velocity addParticles gives it; g = [st, particles]
Seed(g, placement, k, o) ==
  IF k > Len(placement) THEN g
  ELSE LET d == placement[k]
           st == getParticle(g.st, d.x, d.y, d.type, o)
           withV == [st EXCEPT !.P[st.ret].vx = d.vx, !.P[st.ret].vy = d.vy]
       IN Seed([st |-> withV, particles |-> Append(g.particles, st.ret)],
               placement, k + 1, o)

\* Game.initialize: initializeComponents, createParticles, and a preset
\* loaded with loadPreset (its physics options and its rules)
Start(scenarios) ==
  /\ pc = "idle"
  /\ ~initialized
  /\ \E sc \in scenarios :
       LET g == Seed([st |-> initialize(Here, 0), particles |-> <<>>],
                     sc.placement, 1, particleOptions)
       IN /\ g.st.nextParticleId <= MaxId + 1
          /\ Commit(g.st)
          /\ particles' = g.particles
          /\ lastHit' = [p \in DOMAIN g.st.P |-> 0]
          /\ rules' = sc.rules
          /\ ruleManager' = setRules(initializeRules(ruleManager), sc.rules)
          /\ canvas' = sc.canvas
          /\ optionObjects' =
               updateOptions([optionObjects EXCEPT ![particleOptions] = sc.physics],
                             sc.physics)
  /\ ret' = 0
  /\ UNCHANGED <<particleOptions, uiVars, quadtree, inputEvents,
                 collisionsThisFrame, particlesToAdd, particlesToRemove, pc,
                 work, frame>>

----------------------------------------------------------------------------
(* Presets.js *)

\* The built-in presets have rows and entries for red, green, blue and
\* yellow, the first four of the eight types registerDefaultTypes registers:
\* here the first two of the three
PresetTypes == {"A", "B"}

\* presets.noForces.rules: every pair has the same entry
NoForcesRule == [closeForce |-> 0, farForce |-> 0, threshold |-> 0,
                 destroyOriginals |-> FALSE, createParticles |-> <<>>]

\* presets.noForces
noForces ==
  [physics |-> [friction |-> 98, maxVelocity |-> 4 * SCALE, maxDistance |-> 0,
                forceMultiplier |-> 0, collisionDistanceRatio |-> SCALE],
   rules |-> [type1 \in PresetTypes |-> [type2 \in PresetTypes |-> NoForcesRule]]]

\* where presets.noForces.rules is among the rule tables
NoForcesRulesRef == 1

----------------------------------------------------------------------------
(* ParticleTypeRegistry.js *)
(* types is the Map of the registry in insertion order, a sequence of the  *)
(* type objects (properties and registeredAt are never read back);         *)
(* keyboardMappings is the Map from keys to type ids, a function.          *)

\* RulesPanel.addCellEventListeners: no setTimeout callback is pending
NoTimer == [pending |-> FALSE, panel |-> 0, input |-> 0]

\* JavaScript's undefined and null where a string is expected
Missing == "undefined"
Null == "null"

\* !v for a string, undefined or null
Falsy(v) == v \in {Missing, Null, ""}

HexDigits == {"0", "1", "2", "3", "4", "5", "6", "7", "8", "9",
              "A", "B", "C", "D", "E", "F", "a", "b", "c", "d", "e", "f"}

\* /^#[0-9A-F]{6}$/i.test(color), color a sequence of characters
IsHexColor(color) ==
  /\ Len(color) = 7
  /\ color[1] = "#"
  /\ \A i \in 2..7 : color[i] \in HexDigits

EmptyMap == [k \in {} |-> k]

\* Map.set(k, v) and Map.delete(k)
MapSet(m, k, v) == [x \in DOMAIN m \cup {k} |-> IF x = k THEN v ELSE m[x]]
MapDelete(m, k) == [x \in DOMAIN m \ {k} |-> m[x]]

\* new ParticleTypeRegistry()
NewRegistry ==
  [types |-> <<>>, keyboardMappings |-> EmptyMap, displayOrder |-> <<>>,
   initialized |-> FALSE]

\* this.types.has(typeId)
HasType(reg, typeId) == \E i \in DOMAIN reg.types : reg.types[i].id = typeId

\* the place of a registered type in the Map
TypeIndex(reg, typeId) == CHOOSE i \in DOMAIN reg.types : reg.types[i].id = typeId

\* Array.prototype.sort((a, b) => a.order - b.order), which is stable
RECURSIVE SortByOrder(_)
SortByOrder(ts) ==
  IF ts = <<>> THEN <<>>
  ELSE LET least == CHOOSE i \in DOMAIN ts :
                      /\ \A j \in DOMAIN ts : ts[i].order <= ts[j].order
                      /\ \A j \in 1..(i - 1) : ts[j].order # ts[i].order
       IN <<ts[least]>> \o SortByOrder(RemoveAt(ts, least))

\* ParticleTypeRegistry.updateDisplayOrder()
updateDisplayOrder(reg) ==
  LET sorted == SortByOrder(reg.types)
  IN [reg EXCEPT !.displayOrder = [i \in DOMAIN sorted |-> sorted[i].id]]

\* registerType that maps the key before it validates
registerTypeMappingFirst(reg, typeConfig) ==
  IF \/ Falsy(typeConfig.id) \/ Falsy(typeConfig.name) \/ typeConfig.color = <<>>
     \/ HasType(reg, typeConfig.id)
     \/ ~IsHexColor(typeConfig.color)
  THEN [reg |-> IF Falsy(typeConfig.keyboardKey) THEN reg
                ELSE [reg EXCEPT !.keyboardMappings =
                        MapSet(@, typeConfig.keyboardKey, typeConfig.id)],
        ret |-> FALSE]
  ELSE LET type == [id |-> typeConfig.id, name |-> typeConfig.name,
                    color |-> typeConfig.color,
                    keyboardKey |-> IF Falsy(typeConfig.keyboardKey) THEN Null
                                    ELSE typeConfig.keyboardKey,
                    order |-> OrElse(typeConfig.order, 0),
                    enabled |-> TRUE]
           set == [reg EXCEPT !.types = Append(@, type)]
           mapped == IF Falsy(typeConfig.keyboardKey) THEN set
                     ELSE [set EXCEPT !.keyboardMappings =
                             MapSet(@, typeConfig.keyboardKey, typeConfig.id)]
       IN [reg |-> updateDisplayOrder(mapped), ret |-> TRUE]

\* ParticleTypeRegistry.registerType(typeConfig): [reg, ret]; a missing
\* color is the empty sequence of characters
registerType(reg, typeConfig) ==
  IF Falsy(typeConfig.id) \/ Falsy(typeConfig.name) \/ typeConfig.color = <<>>
  THEN [reg |-> reg, ret |-> FALSE]
  ELSE IF HasType(reg, typeConfig.id) THEN [reg |-> reg, ret |-> FALSE]
  ELSE IF ~IsHexColor(typeConfig.color) THEN [reg |-> reg, ret |-> FALSE]
  ELSE LET type == [id |-> typeConfig.id, name |-> typeConfig.name,
                    color |-> typeConfig.color,
                    keyboardKey |-> IF Falsy(typeConfig.keyboardKey) THEN Null
                                    ELSE typeConfig.keyboardKey,
                    order |-> OrElse(typeConfig.order, 0),
                    enabled |-> TRUE]
           set == [reg EXCEPT !.types = Append(@, type)]
           mapped == IF Falsy(typeConfig.keyboardKey) THEN set
                     ELSE [set EXCEPT !.keyboardMappings =
                             MapSet(@, typeConfig.keyboardKey, typeConfig.id)]
       IN [reg |-> updateDisplayOrder(mapped), ret |-> TRUE]

\* ParticleTypeRegistry.unregisterType(typeId)
unregisterType(reg, typeId) ==
  IF ~HasType(reg, typeId) THEN [reg |-> reg, ret |-> FALSE]
  ELSE LET i == TypeIndex(reg, typeId)
           type == reg.types[i]
           unmapped == IF ~Falsy(type.keyboardKey)
                       THEN [reg EXCEPT !.keyboardMappings =
                               MapDelete(@, type.keyboardKey)]
                       ELSE reg
       IN [reg |-> updateDisplayOrder([unmapped EXCEPT !.types = RemoveAt(@, i)]),
           ret |-> TRUE]

\* ParticleTypeRegistry.setTypeEnabled(typeId, enabled)
setTypeEnabled(reg, typeId, enabled) ==
  IF ~HasType(reg, typeId) THEN [reg |-> reg, ret |-> FALSE]
  ELSE [reg |-> updateDisplayOrder(
                  [reg EXCEPT !.types[TypeIndex(reg, typeId)].enabled = enabled]),
        ret |-> TRUE]

\* ParticleTypeRegistry.updateType(typeId, updates); updates is a record of
\* the properties given, and Object.assign writes each of them
updateType(reg, typeId, updates) ==
  IF ~HasType(reg, typeId) THEN [reg |-> reg, ret |-> FALSE]
  ELSE LET i == TypeIndex(reg, typeId)
           type == reg.types[i]
           given == "keyboardKey" \in DOMAIN updates /\ updates.keyboardKey # Missing
           removed == IF given /\ ~Falsy(type.keyboardKey)
                      THEN MapDelete(reg.keyboardMappings, type.keyboardKey)
                      ELSE reg.keyboardMappings
           added == IF given /\ ~Falsy(updates.keyboardKey)
                    THEN MapSet(removed, updates.keyboardKey, typeId)
                    ELSE removed
           assigned == [f \in DOMAIN type |->
                          IF f \in DOMAIN updates THEN updates[f] ELSE type[f]]
           after == [reg EXCEPT !.keyboardMappings = added, !.types[i] = assigned]
       IN [reg |-> IF "order" \in DOMAIN updates THEN updateDisplayOrder(after)
                   ELSE after,
           ret |-> TRUE]

\* importData.types.forEach((type) => this.registerType(type))
RECURSIVE RegisterAll(_, _, _)
RegisterAll(reg, typeConfigs, k) ==
  IF k > Len(typeConfigs) THEN reg
  ELSE RegisterAll(registerType(reg, typeConfigs[k]).reg, typeConfigs, k + 1)

\* ParticleTypeRegistry.importTypes(jsonString, replace); text is what
\* JSON.parse makes of the string: whether it parses, and the object
importTypes(reg, text, replace) ==
  IF ~text.parses THEN [reg |-> reg, ret |-> FALSE]
  ELSE IF "types" \notin DOMAIN text.data THEN [reg |-> reg, ret |-> FALSE]
  ELSE LET cleared == IF replace
                      THEN [reg EXCEPT !.types = <<>>, !.keyboardMappings = EmptyMap]
                      ELSE reg
       IN [reg |-> RegisterAll(cleared, text.data.types, 1), ret |-> TRUE]

----------------------------------------------------------------------------
(* The state after construction: new Game() with its components *)

\* every field but the value returned by the last call
InitFields ==
  /\ P = <<>>
  /\ nextParticleId = 1
  /\ pool = <<>>
  /\ poolSize = 0
  /\ maxPoolSize = MAX_TOTAL_PARTICLES + MIN_POOL_SIZE
  /\ initialized = FALSE
  /\ stats = [totalCreated |-> 0, totalRecycled |-> 0, peakUsage |-> 0,
              currentActive |-> 0]
  /\ particles = <<>>
  /\ rules = <<>>
  /\ ruleManager = NewRuleManager
  /\ ruleObjects = <<noForces.rules>>
  /\ rulesPanel = 0
  /\ typeRegistry = NewRegistry
  /\ debounce = NoTimer
  /\ optionObjects = <<defaultOptions, defaultOptions, defaultOptions>>
  /\ particleOptions = FirstGameOptionsRef
  /\ canvas = [width |-> 0, height |-> 0]
  /\ inputEvents = 0
  /\ collisionsThisFrame = 0
  /\ particlesToAdd = <<>>
  /\ particlesToRemove = <<>>
  /\ quadtree = <<>>
  /\ pc = "idle"
  /\ work = <<>>
  /\ frame = 0
  /\ lastHit = <<>>

Init == InitFields /\ ret = 0

----------------------------------------------------------------------------
(* SpecPool: the pool driven through its own interface *)

PoolArgTypes == {"A", "B"}

Initialize ==
  /\ ~initialized
  /\ \E initialSize \in {0, 2} :
       LET st == initialize(Here, initialSize)
       IN /\ st.nextParticleId <= MaxId + 1
          /\ Commit(st)
  /\ ret' = 0
  /\ UNCHANGED <<optVars, frameVars, engineVars>>

GetParticle ==
  /\ initialized
  /\ stats.totalCreated + stats.totalRecycled < MaxGets
  /\ \E type \in PoolArgTypes :
       LET st == getParticle(Here, 10 * SCALE, 10 * SCALE, type,
                             FirstGameOptionsRef)
       IN /\ st.nextParticleId <= MaxId + 1
          /\ Commit(st)
          /\ ret' = st.ret
  /\ UNCHANGED <<optVars, frameVars, engineVars>>

ReturnParticle ==
  /\ initialized
  /\ \E p \in DOMAIN P : Commit(returnParticle(Here, p))
  /\ ret' = 0
  /\ UNCHANGED <<optVars, frameVars, engineVars>>

NextPool == Initialize \/ GetParticle \/ ReturnParticle

SpecPool == Init /\ [][NextPool]_vars

\* C1: while no getParticle call has found the free list empty (none has
\* allocated: stats.totalCreated = 0), active count + free-list length is
\* at most the pool's capacity
ActivePlusFreeWithinCapacity ==
  (initialized /\ stats.totalCreated = 0)
    => stats.currentActive + Len(pool) <= poolSize

\* C1 witness: particles have been acquired and released, the free list is
\* not full, and none was allocated by the fallback
AcquiredAndReleased ==
  /\ initialized
  /\ stats.totalCreated = 0
  /\ stats.totalRecycled >= 2
  /\ stats.currentActive = 1
  /\ Len(pool) = poolSize - 1

----------------------------------------------------------------------------
(* Scenarios: placements, rule tables and physics options *)

At(x, y, type) == [x |-> x * SCALE, y |-> y * SCALE, type |-> type, vx |-> 0, vy |-> 0]

Moving(x, y, type, vx, vy) ==
  [x |-> x * SCALE, y |-> y * SCALE, type |-> type, vx |-> vx, vy |-> vy]

Canvas == [width |-> 128 * SCALE, height |-> 56 * SCALE]

PlaceAB == <<At(30, 30, "A"), At(31, 30, "B")>>
PlaceBA == <<At(30, 30, "B"), At(31, 30, "A")>>
PlaceABAB == <<At(30, 30, "A"), At(31, 30, "B"), At(90, 30, "A"), At(91, 30, "B")>>
PlaceABC == <<At(30, 30, "A"), At(31, 30, "B"), At(32, 31, "C")>>
PlaceThreePairs == <<At(30, 30, "A"), At(31, 30, "B"), At(60, 30, "A"),
                     At(61, 30, "B"), At(90, 30, "A"), At(91, 30, "B")>>
PlaceEdge == <<At(2, 30, "A"), At(3, 30, "B")>>
\* the later entity has left the canvas on the left
PlaceOutside == <<At(1, 30, "A"), At(-1, 30, "B")>>
PlaceFar == <<At(10, 30, "A"), At(110, 30, "B")>>
PlaceSame == <<At(30, 30, "A"), At(30, 30, "A")>>
PlaceMid == <<At(30, 30, "A"), At(60, 30, "B")>>
PlaceMoving == <<Moving(30, 30, "A", 3 * SCALE, 0), Moving(45, 30, "B", -3 * SCALE, SCALE)>>

Placements == {PlaceAB, PlaceBA, PlaceABAB, PlaceABC, PlaceThreePairs, PlaceEdge, PlaceOutside,
               PlaceFar,
               PlaceSame, PlaceMid, PlaceMoving}

RulesDestroy ==
  [RulesNeutral EXCEPT !["A"]["B"] = [NeutralRule EXCEPT !.destroyOriginals = TRUE]]

RulesCreate ==
  [RulesNeutral EXCEPT !["A"]["B"] =
     [NeutralRule EXCEPT !.createParticles = <<[type |-> "C", count |-> 2]>>]]

RulesForce ==
  [RulesNeutral EXCEPT
     !["A"]["B"] = [NeutralRule EXCEPT !.closeForce = SCALE, !.farForce = -50],
     !["B"]["A"] = [NeutralRule EXCEPT !.closeForce = -SCALE, !.farForce = 30],
     !["A"]["A"] = [NeutralRule EXCEPT !.closeForce = 80]]

\* a table with the row of type A only, and in it the entry for B only
RulesPartial ==
  [t1 \in {"A"} |-> [t2 \in {"B"} |->
     [NeutralRule EXCEPT !.destroyOriginals = TRUE, !.closeForce = 50]]]

RulesBoth ==
  [RulesNeutral EXCEPT
     !["A"]["B"] = [NeutralRule EXCEPT
                      !.destroyOriginals = TRUE,
                      !.createParticles = <<[type |-> "C", count |-> 1]>>],
     !["B"]["A"] = [NeutralRule EXCEPT
                      !.createParticles = <<[type |-> "A", count |-> 1],
                                            [type |-> "C", count |-> 1]>>]]

\* rows for A and B, but no entry for the pair (B, A): A -> B creates
RulesOneWayCreate ==
  [t1 \in {"A", "B"} |->
     IF t1 = "A"
     THEN [t2 \in {"A", "B"} |->
             IF t2 = "B"
             THEN [NeutralRule EXCEPT
                     !.createParticles = <<[type |-> "C", count |-> 2]>>]
             ELSE NeutralRule]
     ELSE [t2 \in {"B"} |-> NeutralRule]]

\* the same table with A -> B destroying the originals and creating nothing
RulesOneWayDestroy ==
  [RulesOneWayCreate EXCEPT !["A"]["B"] =
     [NeutralRule EXCEPT !.destroyOriginals = TRUE]]

\* the empty table a PhysicsEngine is constructed with
RulesEmpty == <<>>

RuleTables == {RulesEmpty, RulesNeutral, RulesDestroy, RulesCreate, RulesForce,
               RulesPartial, RulesBoth, RulesOneWayCreate, RulesOneWayDestroy}

PhysicsBruteForce == [defaultOptions EXCEPT !.useQuadtree = FALSE]
PhysicsQuadtree == defaultOptions
PhysicsSmallNodes == [defaultOptions EXCEPT !.quadtreeCapacity = 1]

PhysicsOptions == {PhysicsBruteForce, PhysicsQuadtree, PhysicsSmallNodes}

Scenarios ==
  [placement : Placements, rules : RuleTables, physics : PhysicsOptions,
   canvas : {Canvas}]

----------------------------------------------------------------------------
(* SpecSim: the frame loop of Game.updatePhysics from every scenario *)

\* How many updates SpecSim runs
MaxFrames == 2

StartSim == Start(Scenarios)

UpdateBeginSim == UpdateBegin(MaxFrames)

NextSim ==
  \/ StartSim
  \/ UpdateBeginSim
  \/ Interact
  \/ UpdateEnd
  \/ ProcessCollisionResults

SpecSim == Init /\ [][NextSim]_vars

\* the ordered pairs the force pass of this update evaluates; positions do not
\* change between the start of update and the end of the pass
PassPairs ==
  IF UsesQuadtree(particles, options)
  THEN QuadtreePairs(BuildQuadtree(P, particles, canvas, options), P, particles, options)
  ELSE BruteForcePairs(particles)

\* C2: with any rule table, also one without a row for the first particle's
\* type and the empty table of a new PhysicsEngine, the force pass raises no
\* error
MissingRuleRaisesNoError == pc # "threw"

RECURSIVE NetForce(_, _, _)
\* the force the pairs from the k-th on accumulate on particle p:
\* calculateParticleInteraction's applyForce(force.fx, force.fy), summed
NetForce(p, pairs, k) ==
  IF k > Len(pairs) THEN [fx |-> 0, fy |-> 0]
  ELSE LET rest == NetForce(p, pairs, k + 1)
           force == calculateForce(P[p], P[pairs[k][2]], rules, options)
       IN IF pairs[k][1] = p
          THEN [fx |-> force.fx + rest.fx, fy |-> force.fy + rest.fy]
          ELSE rest

\* C4: before every update, with a rule table that has a row for every type,
\* the pairs of the brute-force pass and the pairs of the quadtree pass
\* accumulate the same net force on every particle
BothPassesAccumulateTheSameForce ==
  (pc = "idle" /\ initialized /\ \A t \in TypeSet : HasRow(rules, t)) =>
    \A p \in Range(particles) :
      NetForce(p, BruteForcePairs(particles), 1)
        = NetForce(p, QuadtreePairs(BuildQuadtree(P, particles, canvas, options),
                                    P, particles, options), 1)

\* C8: a step of the force pass processes a collision (raises the counter,
\* sets a cooldown or appends to a list) only if both particles of the pair
\* have cooldown 0 and fewer than MAX_COLLISIONS_PER_FRAME collisions were
\* processed before; the counter never exceeds MAX_COLLISIONS_PER_FRAME
CollisionNeedsCooldownAndBudget ==
  /\ [](collisionsThisFrame <= MAX_COLLISIONS_PER_FRAME)
  /\ [][ (pc = "forces" /\ work # <<>> /\ pc' = "forces") =>
           LET p1 == Head(work)[1]
               p2 == Head(work)[2]
           IN ( \/ collisionsThisFrame' # collisionsThisFrame
                \/ particlesToAdd' # particlesToAdd
                \/ particlesToRemove' # particlesToRemove
                \/ \E p \in DOMAIN P :
                     P'[p].collisionCooldown # P[p].collisionCooldown )
              => /\ P[p1].collisionCooldown = 0
                 /\ P[p2].collisionCooldown = 0
                 /\ collisionsThisFrame < MAX_COLLISIONS_PER_FRAME
                 /\ collisionsThisFrame' = collisionsThisFrame + 1 ]_vars

\* C8 witness: the force pass is over with the budget spent, and a pair with
\* cooldown 0 within collision distance and with a rule was left uncollided
BudgetSpentPairLeft ==
  /\ pc = "forces" /\ work = <<>>
  /\ collisionsThisFrame = MAX_COLLISIONS_PER_FRAME
  /\ \E a, b \in Range(particles) :
       /\ a # b
       /\ P[a].collisionCooldown = 0 /\ P[b].collisionCooldown = 0
       /\ WithinCollisionDistance(P[a], P[b], options)
       /\ HasRule(rules, P[a].type, P[b].type)

\* C9: a pair evaluated when MAX_COLLISIONS_PER_FRAME collisions were already
\* processed leaves every cooldown, both lists and the counter as they were;
\* every update starts with empty lists and counter 0, and during an update
\* particlesToRemove holds only particles that collided in this update and
\* the lists are empty while no collision was processed
SkippedCollisionLeavesNoTrace ==
  /\ [][ (pc = "forces" /\ work # <<>> /\ pc' = "forces"
            /\ collisionsThisFrame >= MAX_COLLISIONS_PER_FRAME) =>
           /\ \A p \in DOMAIN P : P'[p].collisionCooldown = P[p].collisionCooldown
           /\ particlesToAdd' = particlesToAdd
           /\ particlesToRemove' = particlesToRemove
           /\ collisionsThisFrame' = collisionsThisFrame ]_vars
  /\ [][ (pc = "idle" /\ pc' = "forces") =>
           /\ particlesToAdd' = <<>>
           /\ particlesToRemove' = <<>>
           /\ collisionsThisFrame' = 0 ]_vars
  /\ []( pc \in {"forces", "results"} =>
           /\ \A p \in Range(particlesToRemove) : lastHit[p] = frame
           /\ Len(particlesToRemove) <= 2 * collisionsThisFrame
           /\ collisionsThisFrame = 0 => particlesToAdd = <<>> )

\* C9 witness: the second update returns the two particles of the pair that
\* was skipped in the first update, and only them
SkippedPairCollidesNextUpdate ==
  /\ pc = "results" /\ frame = 2
  /\ collisionsThisFrame = 1
  /\ Len(particlesToRemove) = 2
  /\ Len(particles) = 2
  /\ Range(particlesToRemove) = Range(particles)

RECURSIVE RequestedCount(_, _)
\* the sum of the counts createParticles lists for the types in ts
RequestedCount(createParticles, ts) ==
  IF createParticles = <<>> THEN 0
  ELSE (IF Head(createParticles).type \in ts THEN Head(createParticles).count ELSE 0)
         + RequestedCount(Tail(createParticles), ts)

\* C10: a step that processes a collision of the pair (p1, p2) under a rule
\* that does not destroy the originals appends exactly sum(count) requests,
\* count of them for each listed type, each within 5 units per axis of the
\* midpoint of p1 and p2; the end of the update returns the list unchanged
CollisionAppendsTheListedRequests ==
  /\ [][ (pc = "forces" /\ work # <<>>
            /\ collisionsThisFrame' = collisionsThisFrame + 1) =>
           LET p1 == P[Head(work)[1]]
               p2 == P[Head(work)[2]]
               rule == rules[p1.type][p2.type]
               added == SubSeq(particlesToAdd', Len(particlesToAdd) + 1,
                               Len(particlesToAdd'))
           IN ~rule.destroyOriginals =>
                /\ SubSeq(particlesToAdd', 1, Len(particlesToAdd)) = particlesToAdd
                /\ Len(added) = RequestedCount(rule.createParticles, TypeSet)
                /\ \A t \in TypeSet :
                     Cardinality({i \in DOMAIN added : added[i].type = t})
                       = RequestedCount(rule.createParticles, {t})
                /\ \A i \in DOMAIN added :
                     /\ Abs(added[i].x - Div(p1.x + p2.x, 2)) <= 5 * SCALE
                     /\ Abs(added[i].y - Div(p1.y + p2.y, 2)) <= 5 * SCALE
                /\ particlesToRemove' = particlesToRemove ]_vars
  /\ [][ (pc = "forces" /\ pc' = "results") => particlesToAdd' = particlesToAdd ]_vars

\* C10 witness: with the B before the A in the collection, the update returns
\* the two requests for type C of rule(A -> B), and destroys nothing
TwoRequestsWithBFirst ==
  /\ pc = "results" /\ frame = 1
  /\ Len(particles) = 2
  /\ P[particles[1]].type = "B" /\ P[particles[2]].type = "A"
  /\ HasRule(rules, "A", "B") /\ ~HasRule(rules, "B", "A")
  /\ Len(particlesToAdd) = 2
  /\ \A i \in DOMAIN particlesToAdd : particlesToAdd[i].type = "C"
  /\ particlesToRemove = <<>>

----------------------------------------------------------------------------
(* SpecCooldown: more than COLLISION_COOLDOWN_FRAMES updates, with rules
   that neither destroy nor create *)

\* How many updates SpecCooldown runs
MaxFramesCooldown == 62

\* A and B attract each other at close range
RulesAttract ==
  [RulesNeutral EXCEPT
     !["A"]["B"] = [NeutralRule EXCEPT !.closeForce = SCALE],
     !["B"]["A"] = [NeutralRule EXCEPT !.closeForce = SCALE]]

ScenariosCooldown ==
  [placement : {PlaceAB, PlaceABC, PlaceMid},
   rules : {RulesNeutral, RulesAttract, RulesForce},
   physics : {PhysicsBruteForce, PhysicsQuadtree},
   canvas : {Canvas}]

StartCooldown == Start(ScenariosCooldown)

UpdateBeginCooldown == UpdateBegin(MaxFramesCooldown)

NextCooldown ==
  \/ StartCooldown
  \/ UpdateBeginCooldown
  \/ Interact
  \/ UpdateEnd
  \/ ProcessCollisionResults

SpecCooldown == Init /\ [][NextCooldown]_vars

\* C7: for a particle whose last processed collision was in update F, during
\* the force pass of update f > F the cooldown is 60 - (f - F) until it
\* reaches 0 in update F + 60; and a collision of the particle is processed
\* in update f only if f - F >= 60
CooldownLastsSixtyUpdates ==
  /\ []( pc = "forces" =>
           \A p \in Range(particles) :
             (lastHit[p] > 0 /\ lastHit[p] < frame) =>
               P[p].collisionCooldown
                 = Max(0, COLLISION_COOLDOWN_FRAMES - (frame - lastHit[p])) )
  /\ [][ \A p \in Range(particles) :
           (lastHit[p] > 0 /\ p \in DOMAIN lastHit' /\ lastHit'[p] # lastHit[p]) =>
             /\ lastHit'[p] = frame
             /\ frame - lastHit[p] >= COLLISION_COOLDOWN_FRAMES ]_vars

\* C7 witness: in update F + 60 a particle that collided in update F has
\* cooldown 0 again and is the first of the pair evaluated next, within
\* collision distance of the other particle, which also has cooldown 0
EligibleAgainAfterSixty ==
  /\ pc = "forces" /\ work # <<>>
  /\ LET p == Head(work)[1]
         q == Head(work)[2]
     IN /\ lastHit[p] > 0
        /\ frame = lastHit[p] + COLLISION_COOLDOWN_FRAMES
        /\ P[p].collisionCooldown = 0 /\ P[q].collisionCooldown = 0
        /\ collisionsThisFrame = 0
        /\ WithinCollisionDistance(P[p], P[q], options)

----------------------------------------------------------------------------
(* SpecQuadtree: a Quadtree built with one insert per entity, then queried *)

\* How many entities SpecQuadtree inserts
QuadtreeEntities == 3

QuadtreeBoundary == Rectangle(0, 0, 128 * SCALE, 64 * SCALE)

\* positions inside the boundary, on its edges, on the first split lines and
\* outside
EntityPositions ==
  { <<0, 0>>, <<30 * SCALE, 10 * SCALE>>, <<31 * SCALE, 10 * SCALE>>,
    <<64 * SCALE, 32 * SCALE>>, <<90 * SCALE, 40 * SCALE>>,
    <<-SCALE, 10 * SCALE>>, <<128 * SCALE, 10 * SCALE>>, <<30 * SCALE, 64 * SCALE>> }

QueryCentres == { <<30 * SCALE, 10 * SCALE>>, <<-SCALE, 10 * SCALE>>,
                  <<64 * SCALE, 32 * SCALE>> }

QueryRadii == { -2 * SCALE, 0, 2 * SCALE, 80 * SCALE }

NoAnswer == [op |-> "none", ok |-> FALSE, inserted |-> {}, found |-> <<>>,
             x |-> 0, y |-> 0, radius |-> 0]

InitQuadtree ==
  /\ optionObjects = <<defaultOptions, defaultOptions, defaultOptions>>
  /\ particleOptions = FirstGameOptionsRef
  /\ \E at \in [1..QuadtreeEntities -> EntityPositions] :
       P = [p \in 1..QuadtreeEntities |->
              ConstructParticle(p, at[p][1], at[p][2], "A", DefaultOptionsRef)]
  /\ nextParticleId = QuadtreeEntities + 1
  /\ particles = [p \in 1..QuadtreeEntities |-> p]
  /\ work = [p \in 1..QuadtreeEntities |-> p]
  /\ \E capacity \in {1, 2} : quadtree = <<NewQuadtree(QuadtreeBoundary, capacity)>>
  /\ pc = "build"
  /\ ret = NoAnswer
  /\ pool = <<>> /\ poolSize = 0 /\ initialized = FALSE
  /\ maxPoolSize = MAX_TOTAL_PARTICLES + MIN_POOL_SIZE
  /\ stats = [totalCreated |-> 0, totalRecycled |-> 0, peakUsage |-> 0,
              currentActive |-> 0]
  /\ rules = <<>>
  /\ ruleManager = NewRuleManager
  /\ ruleObjects = <<noForces.rules>>
  /\ rulesPanel = 0
  /\ typeRegistry = NewRegistry
  /\ debounce = NoTimer
  /\ canvas = [width |-> QuadtreeBoundary.width, height |-> QuadtreeBoundary.height]
  /\ inputEvents = 0
  /\ collisionsThisFrame = 0 /\ particlesToAdd = <<>> /\ particlesToRemove = <<>>
  /\ frame = 0
  /\ lastHit = [p \in 1..QuadtreeEntities |-> 0]

\* quadtree.insert(particle) for the next entity of the collection
QuadtreeInsert ==
  /\ pc = "build"
  /\ work # <<>>
  /\ LET r == Insert(quadtree[1], Entity(P, Head(work)))
     IN /\ quadtree' = <<r.node>>
        /\ ret' = [ret EXCEPT !.op = "insert", !.ok = r.ok,
                     !.inserted = IF r.ok THEN @ \cup {Head(work)} ELSE @]
  /\ work' = Tail(work)
  /\ pc' = IF Tail(work) = <<>> THEN "built" ELSE "build"
  /\ UNCHANGED <<P, nextParticleId, poolVars, particles, rules, ruleManager, uiVars, canvas, inputEvents, optVars,
                 collisionsThisFrame, particlesToAdd, particlesToRemove, frame,
                 lastHit>>

\* quadtree.queryCircle(x, y, radius) on the built tree
QuadtreeQueryCircle ==
  /\ pc \in {"built", "queried"}
  /\ \E centre \in QueryCentres, radius \in QueryRadii :
       ret' = [ret EXCEPT !.op = "queryCircle",
                 !.found = QueryCircle(quadtree[1], centre[1], centre[2], radius),
                 !.x = centre[1], !.y = centre[2], !.radius = radius]
  /\ pc' = "queried"
  /\ UNCHANGED <<P, nextParticleId, poolVars, particles, rules, ruleManager, uiVars, canvas, inputEvents, optVars,
                 quadtree, collisionsThisFrame, particlesToAdd, particlesToRemove,
                 work, frame, lastHit>>

NextQuadtree ==
  \/ QuadtreeInsert
  \/ QuadtreeQueryCircle

SpecQuadtree == InitQuadtree /\ [][NextQuadtree]_vars

----------------------------------------------------------------------------
(* SpecOptions: updates with option changes and resets between them *)

\* How many updates SpecOptions runs
MaxFramesOptions == 2

ScenariosOptions ==
  [placement : {PlaceMoving, PlaceAB},
   rules : {RulesNeutral, RulesForce},
   physics : {PhysicsBruteForce, PhysicsQuadtree},
   canvas : {Canvas}]

StartOptions == Start(ScenariosOptions)

UpdateBeginOptions == UpdateBegin(MaxFramesOptions)

NextOptions ==
  \/ StartOptions
  \/ HandleOptionChange
  \/ ResetOptions
  \/ UpdateBeginOptions
  \/ Interact
  \/ UpdateEnd
  \/ ProcessCollisionResults

SpecOptions == Init /\ [][NextOptions]_vars

\* C6: when an update has integrated the particles and enableVelocityClamp
\* is set in the current options, the speed of every active particle is at
\* most its maxVelocity
SpeedWithinMaxVelocityWhenClamping ==
  (pc = "results" /\ optionObjects[particleOptions].enableVelocityClamp
     /\ optionObjects[EngineOptionsRef].enableVelocityClamp) =>
    \A p \in Range(particles) :
      P[p].vx * P[p].vx + P[p].vy * P[p].vy <= P[p].maxVelocity * P[p].maxVelocity

----------------------------------------------------------------------------
(* SpecRules: the RuleManager driven through its own interface *)

\* A -> B with a force rule and a collision rule, every other pair neutral
RuleAB == [closeForce |-> SCALE \div 2, farForce |-> -(SCALE \div 2),
           threshold |-> 40 * SCALE, destroyOriginals |-> TRUE,
           createParticles |-> <<[type |-> "C", count |-> 2]>>]

RulesAB == [RulesNeutral EXCEPT !["A"]["B"] = RuleAB]

\* the tables handed to setRules and written into the files imported
RuleInputs == {RulesNeutral, RulesAB}

\* Values of Math.random() in randomizeForceRules: the draws that give every
\* pair the neutral numbers, and the draws that give A -> B those of RuleAB
ForceDrawNeutral ==
  [type1 \in TypeSet |-> [type2 \in TypeSet |->
     [closeForce |-> SCALE \div 2, farForce |-> SCALE \div 2,
      threshold |-> SCALE \div 4]]]

ForceDrawAB ==
  [ForceDrawNeutral EXCEPT !["A"]["B"] =
     [closeForce |-> (3 * SCALE) \div 4, farForce |-> SCALE \div 4,
      threshold |-> SCALE \div 2]]

ForceDraws == {ForceDrawNeutral, ForceDrawAB}

\* Draws of randomizeCollisionRules: the pairs stay in the order built, and
\* either no selected pair gets a rule or A -> B gets that of RuleAB
NoRoll == [create |-> FALSE, destroyOriginals |-> FALSE, createParticles |-> <<>>]

CollisionDraws ==
  {[shuffledPairs |-> PossiblePairs, rolls |-> [k \in 1..Len(PossiblePairs) |-> NoRoll]],
   [shuffledPairs |-> PossiblePairs,
    rolls |-> [k \in 1..Len(PossiblePairs) |->
                 IF k = 1
                 THEN [create |-> TRUE,
                       destroyOriginals |-> RuleAB.destroyOriginals,
                       createParticles |-> RuleAB.createParticles]
                 ELSE NoRoll]]}

\* The pairs setForceRule and setCollisionRule are called for: one in the
\* table and one that is not
RulePairs == {<<"A", "B">>, <<"A", "D">>}

\* Files handed to importRules: exports of the tables, a text that is not
\* JSON, objects without rules or without types, and a table whose entries
\* lack fields
InvalidJson == [parses |-> FALSE, data |-> <<>>]
WithoutRules == [parses |-> TRUE, data |-> [types |-> Types]]
WithoutTypes == [parses |-> TRUE, data |-> [rules |-> RulesAB]]
IncompleteEntries ==
  [parses |-> TRUE,
   data |-> [rules |-> [type1 \in {"A"} |-> [type2 \in {"B"} |->
                          [closeForce |-> SCALE \div 2]]],
             types |-> Types]]

ImportTexts ==
  {exportRules([NewRuleManager EXCEPT !.rules = t]) : t \in RuleInputs}
    \cup {InvalidJson, WithoutRules, WithoutTypes, IncompleteEntries}

restOfGame == <<heapVars, poolVars, frameVars, optVars, particles, rules,
                uiVars, canvas, inputEvents, quadtree>>

\* Game.initializeComponents: ruleManager.initialize(), once
RmInitialize ==
  /\ ~ruleManager.initialized
  /\ ruleManager' = initializeRules(ruleManager)
  /\ ret' = [op |-> "initialize"]
  /\ UNCHANGED restOfGame

RmSetRules ==
  /\ ruleManager.initialized
  /\ \E newRules \in RuleInputs : ruleManager' = setRules(ruleManager, newRules)
  /\ ret' = [op |-> "setRules"]
  /\ UNCHANGED restOfGame

RmSetForceRule ==
  /\ ruleManager.initialized
  /\ \E pair \in RulePairs :
       ruleManager' = setForceRule(ruleManager, pair[1], pair[2],
                                   RuleAB.closeForce, RuleAB.farForce,
                                   RuleAB.threshold)
  /\ ret' = [op |-> "setForceRule"]
  /\ UNCHANGED restOfGame

RmSetCollisionRule ==
  /\ ruleManager.initialized
  /\ \E pair \in RulePairs :
       ruleManager' = setCollisionRule(ruleManager, pair[1], pair[2],
                                       RuleAB.destroyOriginals,
                                       RuleAB.createParticles)
  /\ ret' = [op |-> "setCollisionRule"]
  /\ UNCHANGED restOfGame

RmClearForceRules ==
  /\ ruleManager.initialized
  /\ ruleManager' = clearForceRules(ruleManager)
  /\ ret' = [op |-> "clearForceRules"]
  /\ UNCHANGED restOfGame

RmClearCollisionRules ==
  /\ ruleManager.initialized
  /\ ruleManager' = clearCollisionRules(ruleManager)
  /\ ret' = [op |-> "clearCollisionRules"]
  /\ UNCHANGED restOfGame

RmClearAllRules ==
  /\ ruleManager.initialized
  /\ ruleManager' = clearAllRules(ruleManager)
  /\ ret' = [op |-> "clearAllRules"]
  /\ UNCHANGED restOfGame

RmRandomizeForceRules ==
  /\ ruleManager.initialized
  /\ \E random \in ForceDraws :
       ruleManager' = randomizeForceRules(ruleManager, random)
  /\ ret' = [op |-> "randomizeForceRules"]
  /\ UNCHANGED restOfGame

RmRandomizeCollisionRules ==
  /\ ruleManager.initialized
  /\ \E random \in CollisionDraws :
       ruleManager' = randomizeCollisionRules(ruleManager, random)
  /\ ret' = [op |-> "randomizeCollisionRules"]
  /\ UNCHANGED restOfGame

RmUndo ==
  /\ ruleManager.initialized
  /\ ruleManager' = undo(ruleManager).rm
  /\ ret' = [op |-> "undo", value |-> undo(ruleManager).ret]
  /\ UNCHANGED restOfGame

RmRedo ==
  /\ ruleManager.initialized
  /\ ruleManager' = redo(ruleManager).rm
  /\ ret' = [op |-> "redo", value |-> redo(ruleManager).ret]
  /\ UNCHANGED restOfGame

RmImportRules ==
  /\ ruleManager.initialized
  /\ \E text \in ImportTexts :
       /\ ruleManager' = importRules(ruleManager, text).rm
       /\ ret' = [op |-> "importRules",
                  value |-> importRules(ruleManager, text).ret,
                  text |-> text]
  /\ UNCHANGED restOfGame

NextRules ==
  \/ RmInitialize
  \/ RmSetRules
  \/ RmSetForceRule
  \/ RmSetCollisionRule
  \/ RmClearForceRules
  \/ RmClearCollisionRules
  \/ RmClearAllRules
  \/ RmRandomizeForceRules
  \/ RmRandomizeCollisionRules
  \/ RmUndo
  \/ RmRedo
  \/ RmImportRules

SpecRules == Init /\ [][NextRules]_vars

\* The operations that end with saveToHistory
PushingOps == {"setRules", "clearAllRules", "randomizeForceRules",
               "randomizeCollisionRules"}

\* The operations that change the live table
MutatingOps == PushingOps \cup {"setForceRule", "setCollisionRule",
                                "clearForceRules", "clearCollisionRules"}

\* The snapshot at the cursor of rm
SnapshotAtCursor(rm) == rm.ruleHistory[rm.currentHistoryIndex + 1].rules

\* C11: undo() with the cursor above 0 moves the cursor back by one, makes
\* the live table the snapshot at the new cursor and returns true; redo()
\* with the cursor below the last snapshot moves it forward by one, restores
\* likewise and returns true; with the cursor at the first (last) snapshot
\* undo() (redo()) returns false and changes nothing
UndoRedoMoveTheCursorOrChangeNothing ==
  [][LET c == ruleManager.currentHistoryIndex
         n == Len(ruleManager.ruleHistory)
     IN /\ (ret'.op = "undo" /\ c > 0) =>
             /\ ret'.value = TRUE
             /\ ruleManager'.currentHistoryIndex = c - 1
             /\ ruleManager'.ruleHistory = ruleManager.ruleHistory
             /\ ruleManager'.rules = SnapshotAtCursor(ruleManager')
        /\ (ret'.op = "redo" /\ c < n - 1) =>
             /\ ret'.value = TRUE
             /\ ruleManager'.currentHistoryIndex = c + 1
             /\ ruleManager'.ruleHistory = ruleManager.ruleHistory
             /\ ruleManager'.rules = SnapshotAtCursor(ruleManager')
        /\ ((ret'.op = "undo" /\ c <= 0) \/ (ret'.op = "redo" /\ c >= n - 1)) =>
             /\ ret'.value = FALSE
             /\ ruleManager' = ruleManager
    ]_vars

\* C11 witness: a redo has brought back a table that an undo had replaced by
\* a different one, after the live table had been edited without a snapshot
RedoneAfterUndo ==
  /\ ruleManager.initialized
  /\ ret.op = "redo" /\ ret.value
  /\ ruleManager.currentHistoryIndex = Len(ruleManager.ruleHistory) - 1
  /\ ruleManager.currentHistoryIndex >= 1
  /\ ruleManager.rules = RulesAB
  /\ ruleManager.ruleHistory[ruleManager.currentHistoryIndex].rules = RulesNeutral

\* C12: a history-pushing operation called with snapshots after the cursor
\* (there has been an undo) discards them: the history becomes the snapshots
\* up to the cursor followed by the new one, the cursor designates the new
\* one, and a redo() called next returns false
PushDiscardsTheRedoTail ==
  [][LET c == ruleManager.currentHistoryIndex
         n == Len(ruleManager.ruleHistory)
     IN (ret'.op \in PushingOps /\ c < n - 1) =>
          /\ ruleManager'.ruleHistory =
               Append(SubSeq(ruleManager.ruleHistory, 1, c + 1),
                      [rules |-> ruleManager'.rules])
          /\ ruleManager'.currentHistoryIndex = c + 1
          /\ redo(ruleManager').ret = FALSE
          /\ redo(ruleManager').rm = ruleManager'
    ]_vars

\* C12 witness: the history was once full (its first snapshot is no longer
\* the initial one) and is now two snapshots long with the cursor on the
\* second, which a push made from the first snapshot with a tail behind it
DiscardedAfterUndo ==
  /\ ruleManager.initialized
  /\ ret.op \in PushingOps
  /\ Len(ruleManager.ruleHistory) = 2
  /\ ruleManager.currentHistoryIndex = 1
  /\ ruleManager.ruleHistory[1].rules # RulesNeutral

\* The bounds of the history of rm
HistoryWithinLimit(rm) ==
  rm.initialized =>
    /\ Len(rm.ruleHistory) <= maxHistorySize
    /\ 0 <= rm.currentHistoryIndex
    /\ rm.currentHistoryIndex <= Len(rm.ruleHistory) - 1

\* C13: from initialize on, every operation leaves at most maxHistorySize
\* snapshots and a cursor between 0 and the last index; a snapshot pushed
\* onto a full history drops the oldest one and the cursor designates the
\* new one
HistoryBoundedAndCursorInside ==
  [][/\ HistoryWithinLimit(ruleManager')
     /\ ( /\ ret'.op \in PushingOps
          /\ Len(ruleManager.ruleHistory) = maxHistorySize
          /\ ruleManager.currentHistoryIndex = maxHistorySize - 1 ) =>
          /\ ruleManager'.ruleHistory =
               Append(Tail(ruleManager.ruleHistory),
                      [rules |-> ruleManager'.rules])
          /\ ruleManager'.currentHistoryIndex = maxHistorySize - 1
    ]_vars

\* C13 witness: a push has overflowed the history: it is full, the initial
\* snapshot is gone and the cursor is on the snapshot just pushed
OldestSnapshotDropped ==
  /\ ruleManager.initialized
  /\ ret.op \in PushingOps
  /\ Len(ruleManager.ruleHistory) = maxHistorySize
  /\ ruleManager.currentHistoryIndex = maxHistorySize - 1
  /\ ruleManager.ruleHistory[1].rules # RulesNeutral
  /\ SnapshotAtCursor(ruleManager) = ruleManager.rules

\* C14: after every operation that changes the live table the snapshot at
\* the cursor equals the live table
SnapshotAtCursorIsTheLiveTable ==
  (ruleManager.initialized /\ ret.op \in MutatingOps)
    => SnapshotAtCursor(ruleManager) = ruleManager.rules

\* the required shape of an imported file: an object with the types and a
\* rule with every field for every ordered pair of them
WellFormed(text) ==
  /\ text.parses
  /\ "rules" \in DOMAIN text.data
  /\ "types" \in DOMAIN text.data
  /\ text.data.types = Types
  /\ DOMAIN text.data.rules = TypeSet
  /\ \A type1 \in TypeSet :
       /\ DOMAIN text.data.rules[type1] = TypeSet
       /\ \A type2 \in TypeSet :
            DOMAIN text.data.rules[type1][type2] = DOMAIN NeutralRule

\* C15: importRules of a well-formed file returns true, makes the live table
\* the imported one and appends one snapshot of it, on which the cursor is
WellFormedImportReplacesTheTable ==
  [][(ret'.op = "importRules" /\ WellFormed(ret'.text)) =>
       /\ ret'.value = TRUE
       /\ ruleManager'.rules = ret'.text.data.rules
       /\ ruleManager'.ruleHistory # ruleManager.ruleHistory
       /\ SnapshotAtCursor(ruleManager') = ret'.text.data.rules
       /\ ruleManager'.currentHistoryIndex = Len(ruleManager'.ruleHistory) - 1
    ]_vars

\* C16: importRules of a malformed file (not JSON, no rules, no types, rule
\* entries without their fields) returns false and leaves the live table,
\* the history and the cursor as they were
MalformedImportChangesNothing ==
  [][(ret'.op = "importRules" /\ ~WellFormed(ret'.text)) =>
       /\ ret'.value = FALSE
       /\ ruleManager' = ruleManager
    ]_vars

\* C16 witness: a file with both keys whose entries lack fields has been
\* refused while the live table and a history of several snapshots stood
IncompleteEntriesRefused ==
  /\ ruleManager.initialized
  /\ ret.op = "importRules"
  /\ ret.text = IncompleteEntries
  /\ ret.value = FALSE
  /\ ruleManager.rules = RulesAB
  /\ Len(ruleManager.ruleHistory) >= 2

----------------------------------------------------------------------------
(* SpecPoolOps: every operation of the ParticlePool, called by a client  *)
(* that keeps the entities it has acquired in particles and releases     *)
(* only those                                                            *)

\* How many Particle objects SpecPoolOps constructs
MaxPoolIds == 3

\* what a call without a return value gives its caller
Undefined == [op |-> "undefined"]

PoolInitialSizes == {1, 2}
PoolNewSizes == {1, 2}

restOfEngine == <<optVars, frameVars, rules, ruleManager, uiVars, canvas, inputEvents, quadtree>>

\* Game.initializeComponents initializes the pool before any other call
PoolInitialize ==
  /\ ~initialized
  /\ \E initialSize \in PoolInitialSizes :
       LET st == initialize(Here, initialSize)
       IN /\ st.nextParticleId <= MaxPoolIds + 1
          /\ Commit(st)
  /\ ret' = Undefined
  /\ UNCHANGED <<particles, restOfEngine>>

PoolGetParticle ==
  /\ initialized
  /\ stats.totalCreated + stats.totalRecycled < MaxGets
  /\ LET st == getParticle(Here, 10 * SCALE, 20 * SCALE, "B", FirstGameOptionsRef)
     IN /\ st.nextParticleId <= MaxPoolIds + 1
        /\ Commit(st)
        /\ particles' = Append(particles, st.ret)
        /\ ret' = [op |-> "getParticle", particle |-> st.ret,
                   x |-> 10 * SCALE, y |-> 20 * SCALE, type |-> "B"]
  /\ UNCHANGED restOfEngine

PoolReturnParticle ==
  /\ initialized
  /\ \E k \in 1..Len(particles) :
       /\ Commit(returnParticle(Here, particles[k]))
       /\ particles' = RemoveAt(particles, k)
       /\ ret' = Undefined
  /\ UNCHANGED restOfEngine

\* Game.clearParticles: returnParticles(this.particles); this.particles = []
PoolReturnParticles ==
  /\ initialized
  /\ Commit(returnParticles(Here, particles))
  /\ particles' = <<>>
  /\ ret' = Undefined
  /\ UNCHANGED restOfEngine

PoolClear ==
  /\ initialized
  /\ Commit(clear(Here))
  /\ ret' = Undefined
  /\ UNCHANGED <<particles, restOfEngine>>

PoolResize ==
  /\ initialized
  /\ \E newSize \in PoolNewSizes :
       LET st == resize(Here, newSize)
       IN /\ st.nextParticleId <= MaxPoolIds + 1
          /\ Commit(st)
  /\ ret' = Undefined
  /\ UNCHANGED <<particles, restOfEngine>>

PoolResetStats ==
  /\ initialized
  /\ Commit(resetStats(Here))
  /\ ret' = Undefined
  /\ UNCHANGED <<particles, restOfEngine>>

\* getParticle immediately followed by returnParticle of what it returned
PoolGetThenReturn ==
  /\ initialized
  /\ stats.totalCreated + stats.totalRecycled < MaxGets
  /\ LET got == getParticle(Here, 10 * SCALE, 20 * SCALE, "B", FirstGameOptionsRef)
         st == returnParticle(got, got.ret)
     IN /\ st.nextParticleId <= MaxPoolIds + 1
        /\ Commit(st)
        /\ ret' = [op |-> "getThenReturn", particle |-> got.ret]
  /\ UNCHANGED <<particles, restOfEngine>>

NextPoolOps ==
  \/ PoolInitialize
  \/ PoolGetParticle
  \/ PoolReturnParticle
  \/ PoolReturnParticles
  \/ PoolClear
  \/ PoolResize
  \/ PoolResetStats
  \/ PoolGetThenReturn

SpecPoolOps == Init /\ [][NextPoolOps]_vars

\* C17: the excess over the capacity that an allocation by the exhaustion
\* fallback causes is temporary: once a getParticle call has found the free
\* list empty and every acquired entity has been released again, active
\* count + free-list length is at most poolSize
CapacityRestoredOnceAllReleased ==
  (initialized /\ stats.totalCreated > 0 /\ particles = <<>>)
    => stats.currentActive + Len(pool) <= poolSize

\* C18: in every state reached by the operations of the pool the active
\* count is at least 0
ActiveCountNeverNegative == stats.currentActive >= 0

\* C19: on an initialized pool, getParticle immediately followed by
\* returnParticle of the entity it returned leaves the free list as long as
\* it was before the getParticle call
GetThenReturnRestoresFreeListLength ==
  [][ret'.op = "getThenReturn" => Len(pool') = Len(pool)]_vars

\* No two Particle objects have the same id
UniqueIds(objects) ==
  \A p, q \in DOMAIN objects : p # q => objects[p].id # objects[q].id

\* C20: getParticle on a non-empty free list returns an entity of the free
\* list with the requested position and type, zero velocity, force and
\* cooldown, and the id it had before; after every operation no two distinct
\* entities have the same id
RecycledEntityIsResetAndKeepsItsId ==
  [][/\ (ret'.op = "getParticle" /\ initialized /\ Len(pool) > 0) =>
          LET p == ret'.particle
          IN /\ p \in Range(pool)
             /\ p \notin Range(pool')
             /\ P'[p].id = P[p].id
             /\ P'[p].x = ret'.x /\ P'[p].y = ret'.y
             /\ P'[p].type = ret'.type
             /\ P'[p].vx = 0 /\ P'[p].vy = 0
             /\ P'[p].fx = 0 /\ P'[p].fy = 0
             /\ P'[p].collisionCooldown = 0
     /\ UniqueIds(P')
    ]_vars

\* C20 witness: an entity constructed for the free list with another type
\* and position has been recycled, after the fallback had constructed an
\* entity with a later id
RecycledBesideAllocated ==
  /\ initialized
  /\ ret.op = "getParticle"
  /\ stats.totalCreated >= 1
  /\ stats.totalRecycled >= 1
  /\ ret.particle < nextParticleId - 1
  /\ P[ret.particle].type = "B"
  /\ P[ret.particle].id = ret.particle
  /\ \E q \in DOMAIN P : q > ret.particle /\ q \notin Range(pool)

----------------------------------------------------------------------------
(* SpecForce: Particle.calculateForce on pairs at chosen distances, under  *)
(* the physics options a preset or the controls can configure              *)

\* where the other particle is, the first one being at the origin (pixels):
\* distances 0, 3, 5, 50, 80 and 81
ForceOffsets == {<<0, 0>>, <<3, 0>>, <<0, 3>>, <<3, 4>>, <<30, 40>>, <<80, 0>>,
                 <<81, 0>>}

\* configured values: those of presets.noForces (0), the defaults, and others
ForceMaxDistances == {0, 3 * SCALE, 80 * SCALE}
ForceMultipliers == {0, SCALE \div 10, SCALE}
ForceRatios == {0, SCALE, 2 * SCALE}

ForceOptions ==
  {[defaultOptions EXCEPT !.maxDistance = m, !.forceMultiplier = f,
                          !.collisionDistanceRatio = r] :
     m \in ForceMaxDistances, f \in ForceMultipliers, r \in ForceRatios}

\* a table with forces for A -> B: repulsion when close, attraction when far
RulesPush ==
  [RulesNeutral EXCEPT
     !["A"]["B"] = [NeutralRule EXCEPT !.closeForce = -SCALE,
                                       !.farForce = SCALE \div 2]]

ForceRules == {RulesNeutral, RulesPush}

\* this.calculateForce(otherParticle, rules, options) for a particle of type
\* A at the origin and one of type B
CalculateForce ==
  /\ \E at \in ForceOffsets, o \in ForceOptions, rls \in ForceRules :
       LET self == ConstructParticle(1, 0, 0, "A", DefaultOptionsRef)
           other == ConstructParticle(2, at[1] * SCALE, at[2] * SCALE, "B",
                                      DefaultOptionsRef)
       IN ret' = [op |-> "calculateForce", self |-> self, other |-> other,
                  rules |-> rls, options |-> o,
                  force |-> calculateForce(self, other, rls, o)]
  /\ UNCHANGED <<heapVars, poolVars, frameVars, optVars, engineVars>>

NextForce == CalculateForce

\* no call of calculateForce made yet
NoForce == [op |-> "none"]

InitForce == InitFields /\ ret = NoForce

SpecForce == InitForce /\ [][NextForce]_vars

\* the square of the distance of the pair of the call recorded in r
CalledDistSq(r) == DistSq(r.self, r.other)

\* C21: calculateForce returns a force of magnitude 0 whenever the distance
\* of the pair is at least the configured maxDistance (0 included), and when
\* the distance is 0
NoForceAtOrBeyondMaxDistance ==
  [][ret'.op = "calculateForce" =>
       ((CalledDistSq(ret') = 0
           \/ ~DistLT(CalledDistSq(ret'), ret'.options.maxDistance))
          => ret'.force.magnitude = 0)]_vars

\* (baseForce * falloff + collisionForce) * forceMultiplier with the values
\* configured in o, for a pair with 0 < distance < o.maxDistance
ConfiguredForce(self, other, rls, o) ==
  LET d2 == DistSq(self, other)
      distance == Sqrt(d2)
      rule == rls[self.type][other.type]
      falloff == SCALE - Quo(distance, o.maxDistance)
      baseForce == IF DistLT(d2, rule.threshold) THEN rule.closeForce
                   ELSE rule.farForce
      collisionDistance == Mul(self.size + other.size, o.collisionDistanceRatio)
      collisionForce ==
        IF DistLT(d2, collisionDistance)
        THEN -Mul(3 * SCALE, SCALE - Quo(distance, collisionDistance))
        ELSE 0
  IN Mul(Mul(baseForce, falloff) + collisionForce, o.forceMultiplier)

\* C22: for a pair with 0 < distance < maxDistance the magnitude of the
\* force is |(baseForce * falloff + collisionForce) * forceMultiplier| with
\* the configured forceMultiplier, maxDistance and collisionDistanceRatio,
\* so it is 0 when forceMultiplier is 0
MagnitudeFollowsConfiguredValues ==
  [][(ret'.op = "calculateForce" /\ CalledDistSq(ret') > 0
        /\ DistLT(CalledDistSq(ret'), ret'.options.maxDistance))
       => /\ ret'.force.magnitude =
               Abs(ConfiguredForce(ret'.self, ret'.other, ret'.rules,
                                   ret'.options))
          /\ (ret'.options.forceMultiplier = 0 => ret'.force.magnitude = 0)
    ]_vars

\* C23: no step of PhysicsEngine.update (from its first statement to the
\* return of the results) adds an element to the collection of active
\* entities or removes one from it; what the update decided is in
\* particlesToAdd and particlesToRemove when it returns, the destroyed
\* entities still in the collection
UpdateLeavesTheCollectionAlone ==
  [][pc' # "idle" =>
       /\ particles' = particles
       /\ Range(particlesToRemove') \subseteq Range(particles')
    ]_vars

\* C23 witness: an update has returned with entities to remove and entities
\* to create, and the collection still is the two it was given
DecidedButNotApplied ==
  /\ pc = "results"
  /\ particlesToRemove # <<>>
  /\ particlesToAdd # <<>>
  /\ Len(particles) = 2
  /\ Range(particlesToRemove) = Range(particles)

----------------------------------------------------------------------------
(* SpecQuadtree: what insert answers and where the entities end up *)

\* the entities whose insert has run
InsertsDone == Range(particles) \ Range(work)

\* C24: insert returned false exactly for the entities outside
\* [x, x + width) x [y, y + height) of the root boundary, and the entities
\* whose insert returned true are stored once each, so that size() is their
\* number
InsertSucceedsExactlyInsideTheRoot ==
  pc \in {"build", "built"} =>
    /\ ret.inserted
         = {p \in InsertsDone :
              /\ QuadtreeBoundary.x <= P[p].x
              /\ P[p].x < QuadtreeBoundary.x + QuadtreeBoundary.width
              /\ QuadtreeBoundary.y <= P[p].y
              /\ P[p].y < QuadtreeBoundary.y + QuadtreeBoundary.height}
    /\ Size(quadtree[1]) = Cardinality(ret.inserted)
    /\ LET stored == Stored(quadtree[1])
       IN /\ {stored[i].id : i \in DOMAIN stored} = ret.inserted
          /\ \A i, j \in DOMAIN stored : stored[i].id = stored[j].id => i = j

\* C24 witness: a built tree that subdivided, with two entities stored, one of
\* them below the root, and an entity on the right edge refused
BuiltWithOneRefused ==
  /\ pc = "built"
  /\ quadtree[1].divided
  /\ Len(quadtree[1].particles) = 1
  /\ Size(quadtree[1]) = 2
  /\ \E p \in Range(particles) \ ret.inserted :
       P[p].x = QuadtreeBoundary.x + QuadtreeBoundary.width

\* the inserted entities all have the same coordinates
IdenticalCoordinates ==
  \A p, q \in ret.inserted : P[p].x = P[q].x /\ P[p].y = P[q].y

\* the smallest number of nodes of the given capacity that hold n entities
NodesFor(n, capacity) == (n + capacity - 1) \div capacity

\* C25 as stated: once more than capacity entities with the same coordinates
\* are inserted, the tree is deeper than the number of entities inserted
IdenticalCoordinatesOutgrowTheirNumber ==
  (/\ pc \in {"build", "built"}
   /\ IdenticalCoordinates
   /\ Cardinality(ret.inserted) > quadtree[1].capacity)
    => Depth(quadtree[1]) > Cardinality(ret.inserted)

\* C25 amended: every node keeps the entities it took, so n entities in a tree
\* of the given capacity leave a depth of at most ceil(n / capacity), and of
\* exactly that for n entities with the same coordinates
DepthBoundedByTheInserts ==
  pc \in {"build", "built"} =>
    LET n == Cardinality(ret.inserted)
        d == Depth(quadtree[1])
    IN /\ d <= Max(1, NodesFor(n, quadtree[1].capacity))
       /\ (n > 0 /\ IdenticalCoordinates) => d = NodesFor(n, quadtree[1].capacity)

\* C25 witness: three entities with the same coordinates in a tree of
\* capacity one, settled one per level
IdenticalCoordinatesSettled ==
  /\ pc = "built"
  /\ quadtree[1].capacity = 1
  /\ Cardinality(ret.inserted) = QuadtreeEntities
  /\ IdenticalCoordinates
  /\ Depth(quadtree[1]) = QuadtreeEntities

----------------------------------------------------------------------------
(* SpecGameRules: the rule tables as the objects they are.  ruleObjects    *)
(* holds every table; RuleManager.rules, the rules of each history entry,  *)
(* PhysicsEngine.rules and RulesPanel.rules are references into it, so     *)
(* that two holders of one table see each other's writes.                  *)

\* How many rule tables the program is let to make
MaxRuleObjects == 12

\* How many of them in SpecGameRules, where the RuleManager is also called
\* directly
MaxRuleObjectsDirect == 8

\* the same object handed on, where the program makes a copy
SameObject(objs, ref) == [objects |-> objs, ref |-> ref]

\* JSON.parse(JSON.stringify(table)): a new object with the same content
DeepCopy(objs, ref) == [objects |-> Append(objs, objs[ref]), ref |-> Len(objs) + 1]

\* the RuleManager with its live table read through the reference
View(h) == [h.rm EXCEPT !.rules = h.objects[h.rm.rules]]

\* writes to this.rules[type1][type2]: the live object takes the table of after
InPlace(h, after) ==
  [objects |-> [h.objects EXCEPT ![h.rm.rules] = after.rules], rm |-> h.rm]

\* RuleManager.saveToHistory(label): the entry pushed holds a copy
saveToHistoryAt(h) ==
  LET copy == DeepCopy(h.objects, h.rm.rules)
  IN [objects |-> copy.objects,
      rm |-> [saveToHistory([h.rm EXCEPT !.rules = copy.ref])
                EXCEPT !.rules = h.rm.rules]]

\* RuleManager.initialize(): this.rules = {} is a new object
initializeAt(h) ==
  saveToHistoryAt([objects |-> Append(h.objects, RulesNeutral),
                   rm |-> [h.rm EXCEPT !.rules = Len(h.objects) + 1,
                                       !.initialized = TRUE]])

\* RuleManager.setRules(newRules, historyLabel): the live table is a copy
setRulesAt(h, newRules) ==
  LET copy == DeepCopy(h.objects, newRules)
  IN saveToHistoryAt([objects |-> copy.objects,
                      rm |-> [h.rm EXCEPT !.rules = copy.ref]])

\* RuleManager.undo() and redo(): the live table is a copy of the entry
restoreAt(h, moved) ==
  IF ~moved.ret THEN [h |-> h, ret |-> FALSE]
  ELSE LET copy == DeepCopy(h.objects, moved.rm.rules)
       IN [h |-> [objects |-> copy.objects,
                  rm |-> [moved.rm EXCEPT !.rules = copy.ref]],
           ret |-> TRUE]

undoAt(h) == restoreAt(h, undo(h.rm))
redoAt(h) == restoreAt(h, redo(h.rm))

\* this.types.forEach(type1 => this.types.forEach(type2 => ...)): the pairs
\* in the order the bulk operations visit them
AllPairs ==
  [i \in 1..(Len(Types) * Len(Types)) |->
     <<Types[((i - 1) \div Len(Types)) + 1], Types[((i - 1) % Len(Types)) + 1]>>]

\* the first pair visited for which this.rules[type1][type2] is undefined,
\* 0 when there is none
FirstMissing(table) ==
  LET missing == {k \in DOMAIN AllPairs :
                    ~HasRule(table, AllPairs[k][1], AllPairs[k][2])}
  IN IF missing = {} THEN 0
     ELSE CHOOSE k \in missing : \A j \in missing : k <= j

\* this.rules[type1][type2].field = value on an undefined entry throws a
\* TypeError: the entries visited before pair m are written, the others not
WalkedUntil(table, m, Change(_, _, _)) ==
  [t1 \in DOMAIN table |-> [t2 \in DOMAIN table[t1] |->
     IF \E k \in 1..(m - 1) : AllPairs[k] = <<t1, t2>>
     THEN Change(table[t1][t2], t1, t2)
     ELSE table[t1][t2]]]

\* a bulk operation on the live object: whole(h) when the table has every
\* entry; otherwise the walk throws at the first undefined entry, before
\* saveToHistory
BulkAt(h, whole, Change(_, _, _)) ==
  LET table == h.objects[h.rm.rules]
      m == FirstMissing(table)
  IN IF m = 0 THEN [h |-> whole, threw |-> FALSE]
     ELSE [h |-> [objects |-> [h.objects EXCEPT
                                 ![h.rm.rules] = WalkedUntil(table, m, Change)],
                  rm |-> h.rm],
           threw |-> TRUE]

\* RuleManager.randomizeForceRules on the live object
randomizeForceRulesAt(h, random) ==
  BulkAt(h, saveToHistoryAt(InPlace(h, randomizeForceRules(View(h), random))),
         LAMBDA rule, type1, type2 :
           [rule EXCEPT
              !.closeForce = (random[type1][type2].closeForce - SCALE \div 2) * 2,
              !.farForce = (random[type1][type2].farForce - SCALE \div 2) * 2,
              !.threshold =
                20 * SCALE + Mul(random[type1][type2].threshold, 40 * SCALE)])

\* RuleManager.randomizeCollisionRules on the live object: the walk of
\* clearCollisionRules comes first
randomizeCollisionRulesAt(h, random) ==
  BulkAt(h, saveToHistoryAt(InPlace(h, randomizeCollisionRules(View(h), random))),
         LAMBDA rule, type1, type2 :
           [rule EXCEPT !.destroyOriginals = FALSE, !.createParticles = <<>>])

\* RuleManager.clearAllRules on the live object: the walk of clearForceRules
\* comes first
clearAllRulesAt(h) ==
  BulkAt(h, saveToHistoryAt(InPlace(h, clearAllRules(View(h)))),
         LAMBDA rule, type1, type2 :
           [rule EXCEPT !.closeForce = 0, !.farForce = 0,
                        !.threshold = 30 * SCALE])

\* physicsEngine.setRules(table) and rulesPanel.updateRules(table), which
\* keeps a copy
ShowRules(h, table) ==
  LET copy == DeepCopy(h.objects, table)
  IN /\ Len(copy.objects) <= MaxRuleObjects
     /\ ruleObjects' = copy.objects
     /\ ruleManager' = h.rm
     /\ rules' = table
     /\ rulesPanel' = copy.ref

Here2 == [objects |-> ruleObjects, rm |-> ruleManager]

\* what the Game does after a bulk operation: physicsEngine.setRules and
\* rulesPanel.updateRules, which a TypeError thrown by the operation skips
AfterBulk(r) ==
  IF r.threw
  THEN /\ ruleObjects' = r.h.objects
       /\ UNCHANGED <<ruleManager, rules, rulesPanel>>
  ELSE ShowRules(r.h, r.h.rm.rules)

restOfSimulation == <<heapVars, poolVars, frameVars, particles, typeRegistry,
                      canvas, inputEvents, quadtree>>

\* Game.initializeComponents: ruleManager.initialize(),
\* physicsEngine.setRules(getRules()), rulesPanel.initialize(...)
GameInitializeRules ==
  /\ ~ruleManager.initialized
  /\ LET h == initializeAt(Here2)
     IN /\ ruleObjects' = Append(h.objects, RulesNeutral)
        /\ ruleManager' = h.rm
        /\ rules' = h.rm.rules
        /\ rulesPanel' = Len(h.objects) + 1
  /\ ret' = [op |-> "initialize"]
  /\ UNCHANGED <<restOfSimulation, debounce, optVars>>

\* RuleManager.setForceRule, called on the manager
RuleManagerSetForceRule ==
  /\ ruleManager.initialized
  /\ \E pair \in RulePairs, threshold \in {0, RuleAB.threshold} :
       LET h == InPlace(Here2, setForceRule(View(Here2), pair[1], pair[2],
                                            RuleAB.closeForce, RuleAB.farForce,
                                            threshold))
       IN ruleObjects' = h.objects
  /\ ret' = [op |-> "setForceRule"]
  /\ UNCHANGED <<restOfSimulation, debounce, optVars, ruleManager, rules, rulesPanel>>

\* RuleManager.setCollisionRule, called on the manager
RuleManagerSetCollisionRule ==
  /\ ruleManager.initialized
  /\ \E pair \in RulePairs :
       LET h == InPlace(Here2, setCollisionRule(View(Here2), pair[1], pair[2],
                                                RuleAB.destroyOriginals,
                                                RuleAB.createParticles))
       IN ruleObjects' = h.objects
  /\ ret' = [op |-> "setCollisionRule"]
  /\ UNCHANGED <<restOfSimulation, debounce, optVars, ruleManager, rules, rulesPanel>>

\* Game.randomizeForceRules
GameRandomizeForceRules ==
  /\ ruleManager.initialized
  /\ \E random \in ForceDraws :
       LET r == randomizeForceRulesAt(Here2, random)
       IN /\ AfterBulk(r)
          /\ ret' = [op |-> "randomizeForceRules", threw |-> r.threw]
  /\ UNCHANGED <<restOfSimulation, debounce, optVars>>

\* Draws of randomizeCollisionRules: the pairs in the order built or in the
\* opposite order, and for every pair the same roll: no rule, a rule that
\* keeps the originals and creates nothing, or the rule of RuleAB
Reverse(s) == [i \in DOMAIN s |-> s[Len(s) + 1 - i]]

CollisionRolls ==
  {NoRoll,
   [create |-> TRUE, destroyOriginals |-> FALSE, createParticles |-> <<>>],
   [create |-> TRUE, destroyOriginals |-> RuleAB.destroyOriginals,
    createParticles |-> RuleAB.createParticles]}

CollisionDrawsOfAllPairs ==
  {[shuffledPairs |-> order, rolls |-> [k \in DOMAIN order |-> roll]] :
     order \in {PossiblePairs, Reverse(PossiblePairs)}, roll \in CollisionRolls}

\* Game.randomizeCollisionRules
GameRandomizeCollisionRules ==
  /\ ruleManager.initialized
  /\ \E random \in CollisionDrawsOfAllPairs :
       LET r == randomizeCollisionRulesAt(Here2, random)
       IN /\ AfterBulk(r)
          /\ ret' = [op |-> "randomizeCollisionRules", threw |-> r.threw]
  /\ UNCHANGED <<restOfSimulation, debounce, optVars>>

\* Game.clearAllRules
GameClearAllRules ==
  /\ ruleManager.initialized
  /\ LET r == clearAllRulesAt(Here2)
     IN /\ AfterBulk(r)
        /\ ret' = [op |-> "clearAllRules", threw |-> r.threw]
  /\ UNCHANGED <<restOfSimulation, debounce, optVars>>

\* Game.undoRules
GameUndoRules ==
  /\ ruleManager.initialized
  /\ LET r == undoAt(Here2)
     IN /\ IF r.ret THEN ShowRules(r.h, r.h.rm.rules)
           ELSE UNCHANGED <<ruleObjects, ruleManager, rules, rulesPanel>>
        /\ ret' = [op |-> "undo", value |-> r.ret]
  /\ UNCHANGED <<restOfSimulation, debounce, optVars>>

\* Game.redoRules
GameRedoRules ==
  /\ ruleManager.initialized
  /\ LET r == redoAt(Here2)
     IN /\ IF r.ret THEN ShowRules(r.h, r.h.rm.rules)
           ELSE UNCHANGED <<ruleObjects, ruleManager, rules, rulesPanel>>
        /\ ret' = [op |-> "redo", value |-> r.ret]
  /\ UNCHANGED <<restOfSimulation, debounce, optVars>>

\* Game.loadPreset("noForces")
GameLoadPreset ==
  /\ ruleManager.initialized
  /\ LET preset == noForces
         old == optionObjects[particleOptions]
         new == [f \in DOMAIN old |->
                   IF f \in DOMAIN preset.physics THEN preset.physics[f] ELSE old[f]]
     IN /\ optionObjects' =
             updateOptions([optionObjects EXCEPT ![particleOptions] = new], new)
        /\ P' = applyOptionsToParticles(P, particles, new)
        /\ ShowRules(setRulesAt(Here2, NoForcesRulesRef), NoForcesRulesRef)
  /\ ret' = [op |-> "loadPreset"]
  /\ UNCHANGED <<nextParticleId, poolVars, frameVars, particles, typeRegistry,
                 debounce, canvas, inputEvents, quadtree, particleOptions>>

\* What the user types into a cell of the rules panel
PanelInputs == <<[property |-> "threshold", value |-> 0],
                 [property |-> "threshold", value |-> 40 * SCALE],
                 [property |-> "destroyOriginals", value |-> TRUE]>>

\* RulesPanel.updateRuleValue(input, fromType, toType) for the cell A -> B,
\* which ends in Game.handleRuleChange(fromType, toType, rule, rules);
\* PanelInputs[i] is the property of the input element and the value it holds
updateRuleValue(i) ==
  LET input == PanelInputs[i]
      edited == [ruleObjects EXCEPT
                   ![rulesPanel]["A"]["B"][input.property] = input.value]
      h == setRulesAt([objects |-> edited, rm |-> ruleManager], rulesPanel)
  IN IF ~HasRule(ruleObjects[rulesPanel], "A", "B")
     THEN UNCHANGED <<ruleObjects, ruleManager, rules>>
     ELSE /\ Len(h.objects) <= MaxRuleObjects
          /\ ruleObjects' = h.objects
          /\ ruleManager' = h.rm
          /\ rules' = rulesPanel

\* the input element of a property in the panel as last rendered
Element(i) == [pending |-> TRUE, panel |-> rulesPanel, input |-> i]

\* addCellEventListeners: a checkbox has the "change" listener updateHandler;
\* any other input has two "input" listeners, updateHandler and the one that
\* clears the pending timeout of the element and sets a new one.  A timeout
\* pending on an element of an earlier rendering stays pending: the edit is
\* left out then, which keeps the pending callbacks at one
PanelUpdateRuleValue ==
  /\ ruleManager.initialized
  /\ \E i \in DOMAIN PanelInputs :
       /\ updateRuleValue(i)
       /\ IF PanelInputs[i].property = "destroyOriginals"
          THEN debounce' = debounce
          ELSE /\ debounce.pending => debounce.panel = rulesPanel
               /\ debounce' = Element(i)
  /\ ret' = [op |-> "updateRuleValue"]
  /\ UNCHANGED <<restOfSimulation, optVars, rulesPanel>>

\* the callback of setTimeout(updateHandler, 100): updateRuleValue with the
\* input element the listener was added to, whatever was rendered since
DebounceFires ==
  /\ debounce.pending
  /\ updateRuleValue(debounce.input)
  /\ debounce' = NoTimer
  /\ ret' = [op |-> "debounce"]
  /\ UNCHANGED <<restOfSimulation, optVars, rulesPanel>>

FewTables == Len(ruleObjects') <= MaxRuleObjectsDirect

NextGameRules ==
  \/ GameInitializeRules /\ FewTables
  \/ RuleManagerSetForceRule /\ FewTables
  \/ RuleManagerSetCollisionRule /\ FewTables
  \/ GameRandomizeForceRules /\ FewTables
  \/ GameRandomizeCollisionRules /\ FewTables
  \/ GameClearAllRules /\ FewTables
  \/ GameUndoRules /\ FewTables
  \/ GameRedoRules /\ FewTables
  \/ GameLoadPreset /\ FewTables
  \/ PanelUpdateRuleValue /\ FewTables
  \/ DebounceFires /\ FewTables

Constructed == [op |-> "constructor"]

InitGameRules == InitFields /\ ret = Constructed

SpecGameRules == InitGameRules /\ [][NextGameRules]_vars

\* the live table of the RuleManager
ActiveTable == ruleObjects[ruleManager.rules]

\* C26 as stated: every rule of the active table has a threshold above 0
ActiveThresholdsPositive ==
  ruleManager.initialized =>
    \A type1, type2 \in TypeSet :
      HasRule(ActiveTable, type1, type2) =>
        ActiveTable[type1][type2].threshold > 0

\* the ordered pairs of a table that carry a collision rule
Carrying(table) ==
  {pair \in TypeSet \X TypeSet :
     /\ HasRule(table, pair[1], pair[2])
     /\ \/ table[pair[1]][pair[2]].destroyOriginals
        \/ table[pair[1]][pair[2]].createParticles # <<>>}

SnapshotRefs == {ruleManager.ruleHistory[i].rules : i \in DOMAIN ruleManager.ruleHistory}

\* C28: a table stored in the history is referred to by its entry alone, and
\* no step changes its content
SnapshotsNeverChange ==
  [][/\ \A i, j \in DOMAIN ruleManager.ruleHistory :
          ruleManager.ruleHistory[i].rules = ruleManager.ruleHistory[j].rules => i = j
     /\ ruleManager.initialized =>
          SnapshotRefs \cap {ruleManager.rules, rules, rulesPanel, NoForcesRulesRef} = {}
     /\ \A ref \in SnapshotRefs : ruleObjects'[ref] = ruleObjects[ref]]_vars

\* C28 witness: after an undo, a setForceRule has changed the live table and
\* the snapshot it was restored from is as it was
RestoredSnapshotOutlivesEdit ==
  /\ ret.op = "setForceRule"
  /\ ruleManager.currentHistoryIndex < Len(ruleManager.ruleHistory) - 1
  /\ ruleObjects[ruleManager.ruleHistory[ruleManager.currentHistoryIndex + 1].rules]
       = RulesNeutral
  /\ ActiveTable = RulesAB

----------------------------------------------------------------------------
(* SpecRegistry: the ParticleTypeRegistry driven through its own interface *)

\* "#FF0000", "#00ff00" and colors that are not of the form: "FF0000",
\* "#FFF", "#GG0000", "#FF00000"
Red == <<"#", "F", "F", "0", "0", "0", "0">>
Green == <<"#", "0", "0", "f", "f", "0", "0">>
BadColors == {<<"F", "F", "0", "0", "0", "0">>, <<"#", "F", "F", "F">>,
              <<"#", "G", "G", "0", "0", "0", "0">>,
              <<"#", "F", "F", "0", "0", "0", "0", "0">>}

\* The configurations handed to registerType: two types with the same key,
\* and configurations that lack a property or have a bad color
GoodTypeConfigs ==
  {[id |-> "red", name |-> "Red", color |-> Red, keyboardKey |-> "1", order |-> 1],
   [id |-> "green", name |-> "Green", color |-> Green, keyboardKey |-> "1",
    order |-> 0]}

BadTypeConfigs ==
  {[id |-> Missing, name |-> "Pink", color |-> Red, keyboardKey |-> "2", order |-> 0],
   [id |-> "pink", name |-> "", color |-> Red, keyboardKey |-> "2", order |-> 0],
   [id |-> "pink", name |-> "Pink", color |-> <<>>, keyboardKey |-> "2", order |-> 0]}
    \cup {[id |-> "pink", name |-> "Pink", color |-> c, keyboardKey |-> "2",
           order |-> 0] : c \in BadColors}

TypeConfigs == GoodTypeConfigs \cup BadTypeConfigs

TypeIds == {"red", "green", "pink"}

\* The updates handed to updateType
TypeUpdates == <<[keyboardKey |-> "2"], [keyboardKey |-> Missing], [order |-> 2]>>

\* The files handed to importTypes
TypeImports ==
  {InvalidJson,
   [parses |-> TRUE, data |-> [exportedAt |-> 0]],
   [parses |-> TRUE,
    data |-> [types |-> <<[id |-> "red", name |-> "Red", color |-> Red,
                           keyboardKey |-> "2", order |-> 1],
                          [id |-> "pink", name |-> "Pink", color |-> <<"#", "F", "F", "F">>,
                           keyboardKey |-> "1", order |-> 0]>>,
              exportedAt |-> 0]]}

restOfProgram == <<heapVars, poolVars, frameVars, optVars, particles, rules,
                   ruleManager, ruleObjects, rulesPanel, debounce, canvas, inputEvents,
                   quadtree>>

RegisterType ==
  /\ \E typeConfig \in TypeConfigs :
       LET r == registerType(typeRegistry, typeConfig)
       IN /\ typeRegistry' = r.reg
          /\ ret' = [op |-> "registerType", value |-> r.ret, typeConfig |-> typeConfig]
  /\ UNCHANGED restOfProgram

UnregisterType ==
  /\ \E typeId \in TypeIds :
       LET r == unregisterType(typeRegistry, typeId)
       IN /\ typeRegistry' = r.reg
          /\ ret' = [op |-> "unregisterType", value |-> r.ret]
  /\ UNCHANGED restOfProgram

SetTypeEnabled ==
  /\ \E typeId \in {"red", "pink"}, enabled \in BOOLEAN :
       LET r == setTypeEnabled(typeRegistry, typeId, enabled)
       IN /\ typeRegistry' = r.reg
          /\ ret' = [op |-> "setTypeEnabled", value |-> r.ret]
  /\ UNCHANGED restOfProgram

UpdateType ==
  /\ \E typeId \in TypeIds, u \in DOMAIN TypeUpdates :
       LET r == updateType(typeRegistry, typeId, TypeUpdates[u])
       IN /\ typeRegistry' = r.reg
          /\ ret' = [op |-> "updateType", value |-> r.ret]
  /\ UNCHANGED restOfProgram

ImportTypes ==
  /\ \E text \in TypeImports, replace \in BOOLEAN :
       LET r == importTypes(typeRegistry, text, replace)
       IN /\ typeRegistry' = r.reg
          /\ ret' = [op |-> "importTypes", value |-> r.ret]
  /\ UNCHANGED restOfProgram

NextRegistry ==
  \/ RegisterType
  \/ UnregisterType
  \/ SetTypeEnabled
  \/ UpdateType
  \/ ImportTypes

InitRegistry == InitFields /\ ret = Constructed

SpecRegistry == InitRegistry /\ [][NextRegistry]_vars

\* the ids of the registered types
RegisteredIds(reg) == {reg.types[i].id : i \in DOMAIN reg.types}

\* C29: registerType with a missing id, name or color, with a registered id,
\* or with a color that is not # and six hexadecimal digits returns false and
\* leaves the types, the keyboard mappings and the display order as they were
RejectedRegistrationChangesNothing ==
  [][(/\ ret'.op = "registerType"
      /\ \/ Falsy(ret'.typeConfig.id)
         \/ Falsy(ret'.typeConfig.name)
         \/ ret'.typeConfig.color = <<>>
         \/ ret'.typeConfig.id \in RegisteredIds(typeRegistry)
         \/ ret'.typeConfig.color \notin {Red, Green})
       => /\ ret'.value = FALSE
          /\ typeRegistry' = typeRegistry]_vars

\* C29 witness: a registration with a bad color and a key was refused by a
\* registry that holds types and keyboard mappings
BadColorRefused ==
  /\ ret.op = "registerType"
  /\ ret.value = FALSE
  /\ ret.typeConfig.color \in BadColors
  /\ ~Falsy(ret.typeConfig.keyboardKey)
  /\ Len(typeRegistry.types) = 2
  /\ DOMAIN typeRegistry.keyboardMappings # {}

\* C30 as stated: every key of keyboardMappings maps to the id of a
\* registered type
NoOrphanedKeyboardMapping ==
  \A key \in DOMAIN typeRegistry.keyboardMappings :
    typeRegistry.keyboardMappings[key] \in RegisteredIds(typeRegistry)

----------------------------------------------------------------------------
(* SpecOptions: the options object each entity reads *)

\* C36: the enableVelocityClamp and enableAccelerationClamp flags that an
\* entity of the collection reads from its options object are those of
\* Game.particleOptions
EntitiesReadTheCurrentClampFlags ==
  \A p \in Range(particles) :
    /\ optionObjects[P[p].options].enableVelocityClamp
         = optionObjects[particleOptions].enableVelocityClamp
    /\ optionObjects[P[p].options].enableAccelerationClamp
         = optionObjects[particleOptions].enableAccelerationClamp

----------------------------------------------------------------------------
(* SpecSim: collisions of one entity within one update *)

\* every ordered pair of types in the collection has a rule entry
EveryActivePairHasRule ==
  \A a, b \in Range(particles) : HasRule(rules, P[a].type, P[b].type)

NoDuplicates(s) == \A i, j \in DOMAIN s : s[i] = s[j] => i = j

\* C37: when every ordered pair of active types has a rule entry, a step of
\* the force pass that processes a collision involves two entities neither of
\* which took part in a collision earlier in the same update, and no entity
\* appears more than once in particlesToRemove
OneCollisionPerEntityPerUpdate ==
  /\ [][ (EveryActivePairHasRule /\ pc = "forces" /\ work # <<>>
            /\ collisionsThisFrame' = collisionsThisFrame + 1) =>
           /\ lastHit[Head(work)[1]] # frame
           /\ lastHit[Head(work)[2]] # frame
           /\ Head(work)[1] # Head(work)[2] ]_vars
  /\ [](EveryActivePairHasRule => NoDuplicates(particlesToRemove))

\* C37 witness: one collision was processed in this update and the budget is
\* not spent; the pair evaluated next is within collision distance and has a
\* rule, one of its entities collided in this update and is to be removed,
\* the other has cooldown 0
SecondCollisionOfAnEntityAhead ==
  /\ EveryActivePairHasRule
  /\ pc = "forces" /\ work # <<>>
  /\ collisionsThisFrame = 1
  /\ BudgetLeft(collisionsThisFrame)
  /\ LET p1 == Head(work)[1]
         p2 == Head(work)[2]
     IN /\ lastHit[p1] = frame
        /\ p1 \in Range(particlesToRemove)
        /\ lastHit[p2] # frame
        /\ P[p2].collisionCooldown = 0
        /\ WithinCollisionDistance(P[p1], P[p2], options)
        /\ HasRule(rules, P[p1].type, P[p2].type)

----------------------------------------------------------------------------
(* SpecSim: which pairs collide, and under which rule *)

\* the type fields of a list of spawn requests
RequestTypes(requests) == [i \in DOMAIN requests |-> requests[i].type]

\* checkCollision and processCollision get as far as applying a rule
Collides(p1, p2) ==
  /\ BudgetLeft(collisionsThisFrame)
  /\ CooldownClear(P[p1], P[p2])
  /\ WithinCollisionDistance(P[p1], P[p2], options)
  /\ HasRule(rules, P[p1].type, P[p2].type)

\* p stands before q in the collection
Earlier(p, q) == IndexOf(particles, p) < IndexOf(particles, q)

\* a step of the force pass that processes a collision
CollisionStep ==
  /\ pc = "forces" /\ work # <<>> /\ pc' = "forces"
  /\ collisionsThisFrame' = collisionsThisFrame + 1

\* C38 as stated: in both traversal modes the rule applied to a colliding
\* pair is rule[type of the entity earlier in the collection][type of the
\* later one]
RuleOfTheEarlierEntityApplies ==
  [][ CollisionStep => Earlier(Head(work)[1], Head(work)[2]) ]_vars

\* What does hold of the force pass (a lemma, not the statement of C38): the
\* pairs of an update and their order are a function of the
\* collection, the positions and the options; whether a pair collides, the
\* new collision count, particlesToRemove and the types of the spawn requests
\* are a function of the state before the step (only the jitter of the
\* requests varies); the rule applied is that of (earlier, later), unless
\* the table has no entry for (earlier, later), or the quadtree pass runs and
\* the later entity lies outside the canvas rectangle
CollisionsAreAFunctionOfTheState ==
  /\ [][ (pc = "idle" /\ pc' = "forces") =>
           work' = IF UsesQuadtree(particles, options)
                   THEN QuadtreePairs(BuildQuadtree(P, particles, canvas, options),
                                      P, particles, options)
                   ELSE BruteForcePairs(particles) ]_vars
  /\ [][ (pc = "forces" /\ work # <<>> /\ pc' = "forces") =>
           LET p1 == Head(work)[1]
               p2 == Head(work)[2]
           IN IF Collides(p1, p2)
              THEN LET rule == rules[P[p1].type][P[p2].type]
                   IN /\ collisionsThisFrame' = collisionsThisFrame + 1
                      /\ particlesToRemove' =
                           IF rule.destroyOriginals
                           THEN particlesToRemove \o <<p1, p2>>
                           ELSE particlesToRemove
                      /\ RequestTypes(particlesToAdd') =
                           RequestTypes(particlesToAdd)
                             \o SpawnTypes(rule.createParticles)
                      /\ \/ Earlier(p1, p2)
                         \/ ~HasRule(rules, P[p2].type, P[p1].type)
                         \/ /\ UsesQuadtree(particles, options)
                            /\ ~Contains(Rectangle(0, 0, canvas.width, canvas.height),
                                         P[p1].x, P[p1].y)
              ELSE /\ collisionsThisFrame' = collisionsThisFrame
                   /\ particlesToRemove' = particlesToRemove
                   /\ particlesToAdd' = particlesToAdd ]_vars

\* The A stands before the B, the table has the destroying
\* rule(A->B), and the one collision of the update ran under rule(B->A): it
\* requested an A and a C and destroyed nothing
CollidedUnderTheRuleOfTheLaterEntity ==
  /\ pc = "forces"
  /\ Len(particles) = 2
  /\ P[particles[1]].type = "A" /\ P[particles[2]].type = "B"
  /\ HasRule(rules, "A", "B") /\ Destroys(rules["A"]["B"])
  /\ collisionsThisFrame = 1
  /\ particlesToRemove = <<>>
  /\ RequestTypes(particlesToAdd) = <<"A", "C">>

----------------------------------------------------------------------------
(* SpecGameOps: the rule operations of the Game, and no other            *)
(* caller of the RuleManager                                               *)

\* Game.importRules, reader.onload: the engine and the panel are told only
\* when RuleManager.importRules answers true
GameImportRules ==
  /\ ruleManager.initialized
  /\ \E text \in ImportTexts :
       LET r == importRules(View(Here2), text)
       IN /\ IF r.ret
             THEN LET h == saveToHistoryAt(
                             [objects |-> Append(ruleObjects, text.data.rules),
                              rm |-> [ruleManager EXCEPT
                                        !.rules = Len(ruleObjects) + 1]])
                  IN ShowRules(h, h.rm.rules)
             ELSE UNCHANGED <<ruleObjects, ruleManager, rules, rulesPanel>>
          /\ ret' = [op |-> "importRules", value |-> r.ret]
  /\ UNCHANGED <<restOfSimulation, debounce, optVars>>

NextGameOps ==
  \/ GameInitializeRules
  \/ GameRandomizeForceRules
  \/ GameRandomizeCollisionRules
  \/ GameClearAllRules
  \/ GameUndoRules
  \/ GameRedoRules
  \/ GameLoadPreset
  \/ PanelUpdateRuleValue
  \/ DebounceFires
  \/ GameImportRules

SpecGameOps == InitGameRules /\ [][NextGameOps]_vars

\* C35: once the Game has initialized its components, after every rule
\* operation of the Game the table the PhysicsEngine uses is equal in value
\* to the live table of the RuleManager
EngineTableEqualsLiveTable ==
  ruleManager.initialized => ruleObjects[rules] = ruleObjects[ruleManager.rules]

\* C31: once the RuleManager is initialized, the live table has an entry for
\* every ordered pair of the enabled types (PARTICLE_CONFIG.types, the types
\* registerDefaultTypes registers)
EveryEnabledPairHasRule ==
  ruleManager.initialized =>
    \A type1, type2 \in TypeSet : HasRule(ActiveTable, type1, type2)

----------------------------------------------------------------------------
(* SpecGameOps: the debounce timer of a rules-panel input *)

\* a step in which the pending callback of the debounce timer runs
DebounceStep == debounce.pending /\ ~debounce'.pending

\* C39: an edit of a numeric field makes one history entry, that of the
\* immediate handler: whenever the callback of the debounce timer runs, it
\* pushes no entry and leaves the cursor and the entries after it in place
EditMakesOneHistoryEntry ==
  [][ DebounceStep =>
        /\ ruleManager'.ruleHistory = ruleManager.ruleHistory
        /\ ruleManager'.currentHistoryIndex = ruleManager.currentHistoryIndex
    ]_vars

\* the callback runs while there are entries to redo
CallbackNeverRunsWithARedoTail ==
  [][ DebounceStep =>
        ruleManager.currentHistoryIndex = Len(ruleManager.ruleHistory) - 1 ]_vars

\* the callback leaves the live table as the undo before it restored it
CallbackKeepsTheLiveTable ==
  [][ DebounceStep => ActiveTable' = ActiveTable ]_vars

----------------------------------------------------------------------------
(* SpecGame: the Game's operations on the active collection and the pool *)

\* How many updates SpecGame runs
MaxFramesGame == 2

\* How many input events (buttons, mouse moves) SpecGame handles
MaxInputEvents == 1

\* How many times the loop of addParticles runs (200 in the program)
AddParticlesLoop == 2

\* What createRandomPattern makes: one factory call for every type, in the
\* order of the types, at a position it draws
RandomPatterns == {PlaceABC}

ScenariosGame ==
  [placement : RandomPatterns,
   rules : {RulesDestroy, RulesCreate, RulesBoth},
   physics : {PhysicsBruteForce, PhysicsQuadtree},
   canvas : {Canvas}]

\* What addParticles draws for one particle: a position inside the margin
\* of 20 and a velocity of speed 1 to 4; and where the mouse is
SpawnDraws == {[x |-> 31 * SCALE, y |-> 31 * SCALE, vx |-> SCALE, vy |-> 0]}

\* Quadtree.clear()
clearQuadtree(node) ==
  [node EXCEPT !.particles = <<>>, !.divided = FALSE, !.subdivisions = <<>>]

StartGame == Start(ScenariosGame)

UpdateBeginGame == UpdateBegin(MaxFramesGame)

RECURSIVE AddLoop(_, _, _, _, _)
\* the loop of addParticles; g = [st, particles]
AddLoop(g, draws, k, type, o) ==
  IF k > Len(draws) THEN g
  ELSE IF Len(g.particles) < MAX_TOTAL_PARTICLES
  THEN LET d == draws[k]
           st == getParticle(g.st, d.x, d.y, type, o)
           withV == [st EXCEPT !.P[st.ret].vx = d.vx, !.P[st.ret].vy = d.vy]
       IN AddLoop([st |-> withV, particles |-> Append(g.particles, st.ret)],
                  draws, k + 1, type, o)
  ELSE AddLoop(g, draws, k + 1, type, o)

\* the observer lastHit when the entities of kept stay active: an entity that was
\* handed out or returned has no collision behind it
LastHitOf(PP, kept) ==
  [p \in DOMAIN PP |-> IF p \in DOMAIN lastHit /\ p \in kept THEN lastHit[p] ELSE 0]

\* Game.addParticles()
GameAddParticles ==
  /\ pc = "idle"
  /\ initialized
  /\ inputEvents < MaxInputEvents
  /\ inputEvents' = inputEvents + 1
  /\ \E type \in Range(Types), draws \in [1..AddParticlesLoop -> SpawnDraws] :
       LET g == AddLoop([st |-> Here, particles |-> particles], draws, 1, type,
                        particleOptions)
       IN /\ g.st.nextParticleId <= MaxId + 1
          /\ Commit(g.st)
          /\ particles' = g.particles
          /\ lastHit' = LastHitOf(g.st.P, Range(particles))
  /\ ret' = 0
  /\ UNCHANGED <<rules, ruleManager, uiVars, canvas, quadtree, optVars,
                 collisionsThisFrame, particlesToAdd, particlesToRemove, pc,
                 work, frame>>

\* the mousemove listener of setupMouseHandlers while the key of a type is
\* held
MouseSpawn ==
  /\ pc = "idle"
  /\ initialized
  /\ inputEvents < MaxInputEvents
  /\ inputEvents' = inputEvents + 1
  /\ \E typeId \in Range(Types), mouse \in SpawnDraws :
       IF Len(particles) < MAX_TOTAL_PARTICLES
       THEN LET st == getParticle(Here, mouse.x, mouse.y, typeId, particleOptions)
            IN /\ st.nextParticleId <= MaxId + 1
               /\ Commit(st)
               /\ particles' = Append(particles, st.ret)
               /\ lastHit' = LastHitOf(st.P, Range(particles))
       ELSE UNCHANGED <<heapVars, poolVars, particles, lastHit>>
  /\ ret' = 0
  /\ UNCHANGED <<rules, ruleManager, uiVars, canvas, quadtree, optVars,
                 collisionsThisFrame, particlesToAdd, particlesToRemove, pc,
                 work, frame>>

\* Game.clearParticles(), the pool's part
clearParticles(st, ps) == resetStats(returnParticles(st, ps))

\* PhysicsEngine.quadtree after clearParticles
ClearedQuadtree == IF quadtree = <<>> THEN <<>> ELSE <<clearQuadtree(quadtree[1])>>

\* Game.clearParticles()
ClearParticles ==
  /\ pc = "idle"
  /\ initialized
  /\ inputEvents < MaxInputEvents
  /\ inputEvents' = inputEvents + 1
  /\ LET st == clearParticles(Here, particles)
     IN /\ Commit(st)
        /\ lastHit' = LastHitOf(st.P, {})
  /\ particles' = <<>>
  /\ quadtree' = ClearedQuadtree
  /\ ret' = 0
  /\ UNCHANGED <<rules, ruleManager, uiVars, canvas, optVars,
                 collisionsThisFrame, particlesToAdd, particlesToRemove, pc,
                 work, frame>>

\* Game.resetSimulation(): clearParticles, resetOptions, createParticles
ResetSimulation ==
  /\ pc = "idle"
  /\ initialized
  /\ inputEvents < MaxInputEvents
  /\ inputEvents' = inputEvents + 1
  /\ Len(optionObjects) < FirstGameOptionsRef - 1 + MaxGameOptionObjects
  /\ particleOptions' = Len(optionObjects) + 1
  /\ optionObjects' = updateOptions(Append(optionObjects, defaultOptions), defaultOptions)
  /\ \E placement \in RandomPatterns :
       LET cleared == clearParticles(Here, particles)
           \* the new options object holds what the default options hold
           g == Seed([st |-> returnParticles(cleared, <<>>), particles |-> <<>>],
                     placement, 1, DefaultOptionsRef)
           seeded ==
             [g.st EXCEPT !.P = [p \in DOMAIN g.st.P |->
                                   IF p \in Range(g.particles)
                                   THEN [g.st.P[p] EXCEPT !.options = particleOptions']
                                   ELSE g.st.P[p]]]
       IN /\ g.st.nextParticleId <= MaxId + 1
          /\ Commit(seeded)
          /\ particles' = g.particles
          /\ lastHit' = LastHitOf(g.st.P, {})
  /\ quadtree' = ClearedQuadtree
  /\ ret' = 0
  /\ UNCHANGED <<rules, ruleManager, uiVars, canvas, collisionsThisFrame,
                 particlesToAdd, particlesToRemove, pc, work, frame>>

NextGame ==
  \/ StartGame
  \/ UpdateBeginGame
  \/ Interact
  \/ UpdateEnd
  \/ ProcessCollisionResults
  \/ GameAddParticles
  \/ MouseSpawn
  \/ ClearParticles
  \/ ResetSimulation

SpecGame == Init /\ [][NextGame]_vars

----------------------------------------------------------------------------
(* SpecGame: the pool's active count *)

\* The sizes as the program has them: the pool initialize() fills and the
\* cap of the collection are both below maxPoolSize (6600 and 7000 below
\* 12000)
ProgramSizes == poolSize < maxPoolSize /\ MAX_TOTAL_PARTICLES < maxPoolSize

----------------------------------------------------------------------------
(* SpecGame: the collection and the free list *)

\* C33: no entity is both in the active collection and in the pool's free
\* list, the free list holds no entity twice and the active collection holds
\* no entity twice
NoEntityBothActiveAndFree ==
  /\ Range(particles) \cap Range(pool) = {}
  /\ NoDuplicates(pool)
  /\ NoDuplicates(particles)

\* the free list is the part of the initial pool that was never handed out,
\* and there were more hand-outs than there are entities outside it: an
\* entity that was returned is active again
ReturnedEntityActiveAgain ==
  /\ initialized /\ pc = "idle" /\ frame >= 1
  /\ particles # <<>>
  /\ pool = [i \in 1..Len(pool) |-> i]
  /\ Range(particles) = DOMAIN P \ Range(pool)
  /\ stats.totalCreated = 0
  /\ stats.totalRecycled > Len(particles)

----------------------------------------------------------------------------
(* SpecGame: the cap of the collection *)

\* how many entities of toRemove the removal loop finds in the collection
Found(toRemove) == Cardinality(Range(toRemove) \cap Range(particles))

\* C34: the collection, seeded with at most MAX_TOTAL_PARTICLES entities,
\* never has more than MAX_TOTAL_PARTICLES, and processCollisionResults
\* leaves it with the entities it had, less the removed ones, plus the
\* requested ones as far as the cap allows: the removals come first and the
\* requests beyond the cap are dropped
CollectionStep ==
  /\ Len(particles') <= MAX_TOTAL_PARTICLES
  /\ (pc = "results" /\ pc' = "idle") =>
       Len(particles') = Min(MAX_TOTAL_PARTICLES,
                             Len(particles) - Found(particlesToRemove)
                               + Len(particlesToAdd))

CollectionNeverAboveTheCap == [][CollectionStep]_vars

\* processCollisionResults has run on a collection that was at the cap: it
\* removed entities and then admitted a request, for which the pool handed
\* out the entity removed last; nothing was appended since
RemovedAtTheCapThenSpawned ==
  /\ pc = "idle" /\ frame >= 1
  /\ particlesToRemove # <<>> /\ particlesToAdd # <<>>
  /\ particles # <<>>
  /\ particles[Len(particles)] = particlesToRemove[Len(particlesToRemove)]
  /\ Len(particles) + Len(particlesToRemove) - Len(particlesToAdd)
       = MAX_TOTAL_PARTICLES
====
